---- MODULE Spec2Model ----
(***************************************************************************)
(* The event-name location parser of ifsc-climbing-dataviz:                *)
(*   src/assets/helpers/event_location_v2.py   (the rule-rich variant)     *)
(*   src/assets/helpers/event_location.py      (the variant the bulk       *)
(*                                              driver imports)            *)
(* A Python str is a sequence of one-character strings; offsets are        *)
(* Python's (0-based, half-open), so s[a:b] is SubSeq(s, a+1, b).  Python's *)
(* None is the value None; a call that raises yields the value Raised.     *)
(***************************************************************************)
EXTENDS Integers, Sequences, FiniteSets, TLC

\* The module global `pycountry` of event_location_v2.py: TRUE when the import
\* at the top of the module succeeded, FALSE when it set pycountry = None.  No
\* function of the module assigns it.
VARIABLE pycountry

\* Call(f, args) is f(*args), the function of the modules that is named f:
\* the functions call one another by name
RECURSIVE Call(_, _)

\* ------------------------------------------------------------ characters

Upper26 == {"A","B","C","D","E","F","G","H","I","J","K","L","M",
            "N","O","P","Q","R","S","T","U","V","W","X","Y","Z"}
Lower26 == {"a","b","c","d","e","f","g","h","i","j","k","l","m",
            "n","o","p","q","r","s","t","u","v","w","x","y","z"}
CasePairs ==
  { <<"A","a">>, <<"B","b">>, <<"C","c">>, <<"D","d">>, <<"E","e">>, <<"F","f">>,
    <<"G","g">>, <<"H","h">>, <<"I","i">>, <<"J","j">>, <<"K","k">>, <<"L","l">>,
    <<"M","m">>, <<"N","n">>, <<"O","o">>, <<"P","p">>, <<"Q","q">>, <<"R","r">>,
    <<"S","s">>, <<"T","t">>, <<"U","u">>, <<"V","v">>, <<"W","w">>, <<"X","x">>,
    <<"Y","y">>, <<"Z","z">>, <<"À","à">>, <<"Ç","ç">> }
UpperChars == Upper26 \cup {"À", "Ç"}
LowerChars == Lower26 \cup {"à", "ç"}
Alpha == UpperChars \cup LowerChars
Digit == {"0","1","2","3","4","5","6","7","8","9"}
\* \w of a Python 3 str pattern: letters (accented ones too), digits, underscore
WordChars == Alpha \cup Digit \cup {"_"}
\* \s and str.split(): the names of the model hold no other white space
Space == {" "}
\* "rsquo" stands for the right single quotation mark U+2019
Punct == {"(", ")", ",", "-", ".", ";", ":", "'", "\"", "/", "rsquo"}
AnyChar == WordChars \cup Space \cup Punct

LowerOf == [u \in UpperChars |-> CHOOSE l \in LowerChars : <<u, l>> \in CasePairs]
UpperOf == [l \in LowerChars |-> CHOOSE u \in UpperChars : <<u, l>> \in CasePairs]
LowerCh(c) == IF c \in UpperChars THEN LowerOf[c] ELSE c
UpperCh(c) == IF c \in LowerChars THEN UpperOf[c] ELSE c

\* Python's None where a str may stand: no str holds this element
None == <<"None">>

\* ------------------------------------------------------------ str methods

Min(a, b) == IF a < b THEN a ELSE b
Max(a, b) == IF a > b THEN a ELSE b

\* s[a:b]
Slice(s, a, b) == SubSeq(s, a + 1, b)
\* s[a:]
From(s, a) == SubSeq(s, a + 1, Len(s))
\* s.lower()
Lower(s) == [i \in 1..Len(s) |-> LowerCh(s[i])]
\* s.upper()
Upper(s) == [i \in 1..Len(s) |-> UpperCh(s[i])]
\* s.startswith(p)
StartsWith(s, p) == Len(p) <= Len(s) /\ SubSeq(s, 1, Len(p)) = p
\* s.endswith(p)
EndsWith(s, p) == Len(p) <= Len(s) /\ SubSeq(s, Len(s) - Len(p) + 1, Len(s)) = p
\* p in s
Contains(s, p) == \E a \in 0..(Len(s) - Len(p)) : Slice(s, a, a + Len(p)) = p
\* any(ch.isalpha() for ch in s)
HasAlpha(s) == \E i \in 1..Len(s) : s[i] \in Call("Alpha", <<>>)

\* the number of consecutive characters of cs in s from offset p on
RunLen(s, p, cs) ==
  IF p >= Len(s) \/ s[p + 1] \notin cs THEN 0
  ELSE CHOOSE k \in 1..(Len(s) - p) :
         /\ \A j \in 1..k : s[p + j] \in cs
         /\ (p + k = Len(s) \/ s[p + k + 1] \notin cs)
\* the number of consecutive characters of cs in s leftwards from its end
RunLenBack(s, cs) ==
  IF s = <<>> \/ s[Len(s)] \notin cs THEN 0
  ELSE CHOOSE k \in 1..Len(s) :
         /\ \A j \in 1..k : s[Len(s) + 1 - j] \in cs
         /\ (k = Len(s) \/ s[Len(s) - k] \notin cs)

\* s.lstrip(cs), s.rstrip(cs), s.strip(cs)
LStrip(s, cs) == SubSeq(s, Call("RunLen", <<s, 0, cs>>) + 1, Len(s))
RStrip(s, cs) == SubSeq(s, 1, Len(s) - Call("RunLenBack", <<s, cs>>))
Strip(s, cs) ==
  IF \A i \in 1..Len(s) : s[i] \in cs THEN <<>>
  ELSE SubSeq(s, Call("RunLen", <<s, 0, cs>>) + 1, Len(s) - Call("RunLenBack", <<s, cs>>))
\* s.strip()
StripWs(s) == Call("Strip", <<s, Space>>)

\* the concatenation of the sequences ss[lo], ..., ss[hi]
RECURSIVE FlattenRange(_, _, _)
FlattenRange(ss, lo, hi) ==
  IF lo > hi THEN <<>>
  ELSE IF lo = hi THEN ss[lo]
  ELSE LET mid == (lo + hi) \div 2
       IN FlattenRange(ss, lo, mid) \o FlattenRange(ss, mid + 1, hi)
Flatten(ss) ==
  IF Len(ss) = 1 THEN ss[1]
  ELSE LET ne == SelectSeq(ss, LAMBDA x : x # <<>>)
       IN IF ne = <<>> THEN <<>>
          ELSE IF Len(ne) = 1 THEN ne[1] ELSE FlattenRange(ne, 1, Len(ne))

\* s.split(): the maximal runs of non-space characters
SplitWs(s) ==
  LET idx == [i \in 1..Len(s) |-> i]
      starts == SelectSeq(idx, LAMBDA i : s[i] \notin Space /\ (i = 1 \/ s[i - 1] \in Space))
  IN [k \in 1..Len(starts) |->
        SubSeq(s, starts[k], starts[k] - 1 + Call("RunLen", <<s, starts[k] - 1, Call("AnyChar", <<>>) \ Space>>))]

\* " ".join(ws)
JoinSp(ws) ==
  Call("Flatten", <<[k \in 1..Len(ws) |-> IF k = 1 THEN ws[1] ELSE <<" ">> \o ws[k]]>>)

\* " ".join(s.split())
NormWs(s) == Call("JoinSp", <<Call("SplitWs", <<s>>)>>)

\* ------------------------------------------------------------ re
\* A pattern is a tree; Match lists the ways it matches at an offset in the
\* order Python's backtracking matcher tries them (first alternative first,
\* greedy repeats longest first, lazy ones shortest first), so the head of
\* the list is the match re finds there.  A match state is the offset
\* reached and the spans of the two capture groups the patterns use.  No
\* pattern of the program matches the empty string.

Lit(w) == [t |-> "lit", w |-> w, ic |-> FALSE]
\* a literal under re.IGNORECASE
LitI(w) == [t |-> "lit", w |-> w, ic |-> TRUE]
Cls(cs) == [t |-> "cls", cs |-> cs]
Cat(rs) == [t |-> "cat", rs |-> rs]
Alt(rs) == [t |-> "alt", rs |-> rs]
\* r{lo,hi}, hi = -1 for no upper limit
Rep(r, lo, hi) == [t |-> "rep", r |-> r, lo |-> lo, hi |-> hi, lazy |-> FALSE]
RepLazy(r, lo, hi) == [t |-> "rep", r |-> r, lo |-> lo, hi |-> hi, lazy |-> TRUE]
Star(r) == Rep(r, 0, -1)
Plus(r) == Rep(r, 1, -1)
Opt(r) == Rep(r, 0, 1)
Grp(n, r) == [t |-> "grp", n |-> n, r |-> r]
Bol == [t |-> "bol"]
Eol == [t |-> "eol"]
WordB == [t |-> "wb"]

NoSpan == <<-1, -1>>
MState(p) == [p |-> p, g |-> <<NoSpan, NoSpan>>]

IsWordAt(s, i) == i >= 1 /\ i <= Len(s) /\ s[i] \in WordChars

\* a repeat of a single character class: the run of the class from st.p,
\* every admissible length of it, longest first unless lazy
MatchRepCls(r, s, st) ==
  LET run == Call("RunLen", <<s, st.p, r.r.cs>>)
      most == IF r.hi >= 0 /\ r.hi < run THEN r.hi ELSE run
  IN IF most < r.lo THEN <<>>
     ELSE [i \in 1..(most - r.lo + 1) |->
             [st EXCEPT !.p = IF r.lazy THEN st.p + r.lo + i - 1 ELSE st.p + most - i + 1]]

RECURSIVE Match(_, _, _), MatchCat(_, _, _, _), MatchRep(_, _, _, _)

\* the matches of r from each of the states sts, in order
MatchAll(r, s, sts) ==
  IF Len(sts) = 1 THEN Match(r, s, sts[1])
  ELSE Call("Flatten", <<[k \in 1..Len(sts) |-> Match(r, s, sts[k])]>>)

Match(r, s, st) ==
  CASE r.t = "lit" ->
         IF st.p + Len(r.w) <= Len(s)
            /\ (IF r.ic THEN Call("Lower", <<Slice(s, st.p, st.p + Len(r.w))>>) = Call("Lower", <<r.w>>)
                        ELSE Slice(s, st.p, st.p + Len(r.w)) = r.w)
         THEN <<[st EXCEPT !.p = st.p + Len(r.w)]>> ELSE <<>>
    [] r.t = "cls" ->
         IF st.p < Len(s) /\ s[st.p + 1] \in r.cs
         THEN <<[st EXCEPT !.p = st.p + 1]>> ELSE <<>>
    [] r.t = "cat" -> MatchCat(r.rs, s, <<st>>, 1)
    [] r.t = "alt" -> Call("Flatten", <<[k \in 1..Len(r.rs) |-> Match(r.rs[k], s, st)]>>)
    [] r.t = "rep" -> IF r.r.t = "cls" THEN MatchRepCls(r, s, st) ELSE MatchRep(r, s, st, 0)
    [] r.t = "grp" ->
         LET in == Match(r.r, s, st)
         IN [k \in 1..Len(in) |-> [in[k] EXCEPT !.g[r.n] = <<st.p, in[k].p>>]]
    [] r.t = "bol" -> IF st.p = 0 THEN <<st>> ELSE <<>>
    [] r.t = "eol" -> IF st.p = Len(s) THEN <<st>> ELSE <<>>
    [] r.t = "wb" ->
         IF IsWordAt(s, st.p) # IsWordAt(s, st.p + 1) THEN <<st>> ELSE <<>>

MatchCat(rs, s, sts, k) ==
  IF k > Len(rs) \/ sts = <<>> THEN sts
  ELSE MatchCat(rs, s, MatchAll(rs[k], s, sts), k + 1)

\* n repetitions done; each further one must consume something
MatchRep(r, s, st, n) ==
  LET once == SelectSeq(Match(r.r, s, st), LAMBDA x : x.p > st.p)
      more == IF r.hi >= 0 /\ n >= r.hi THEN <<>>
              ELSE Call("Flatten", <<[k \in 1..Len(once) |-> MatchRep(r, s, once[k], n + 1)]>>)
      stop == IF n >= r.lo THEN <<st>> ELSE <<>>
  IN IF r.lazy THEN stop \o more ELSE more \o stop

\* A match object: ok, start(), end(), and the spans of groups 1 and 2
NoMatch == [ok |-> FALSE, s |-> -1, e |-> -1, g |-> <<NoSpan, NoSpan>>]
MatchAt(r, s, a) ==
  LET ms == Match(r, s, MState(a))
  IN IF ms = <<>> THEN Call("NoMatch", <<>>)
     ELSE [ok |-> TRUE, s |-> a, e |-> ms[1].p, g |-> ms[1].g]

\* the match at every offset that has one, left to right
MatchesAtAll(r, s) ==
  SelectSeq([k \in 1..(Len(s) + 1) |-> Call("MatchAt", <<r, s, k - 1>>)], LAMBDA m : m.ok)

\* pattern.search(s): the match at the leftmost offset that has one
Search(r, s) ==
  LET ms == Call("MatchesAtAll", <<r, s>>) IN IF ms = <<>> THEN Call("NoMatch", <<>>) ELSE ms[1]
\* re.match(pattern, s)
MatchStart(r, s) == Call("MatchAt", <<r, s, 0>>)
\* re.fullmatch(pattern, s)
FullMatch(r, s) == Call("MatchAt", <<Cat(<<r, Eol>>), s, 0>>).ok

\* of the matches ms[k..], those that start at or after offset a and do not
\* overlap one another
RECURSIVE NonOverlapping(_, _, _)
NonOverlapping(ms, k, a) ==
  IF k > Len(ms) THEN <<>>
  ELSE IF ms[k].s < a THEN NonOverlapping(ms, k + 1, a)
  ELSE <<ms[k]>> \o NonOverlapping(ms, k + 1, ms[k].e)

\* list(pattern.finditer(s)): the non-overlapping matches, left to right
FindIter(r, s) == NonOverlapping(Call("MatchesAtAll", <<r, s>>), 1, 0)

\* pattern.sub("", s): s without the spans of finditer
SubEmpty(r, s) ==
  LET ms == Call("FindIter", <<r, s>>)
  IN Call("Flatten", <<[k \in 1..(Len(ms) + 1) |->
                Slice(s, IF k = 1 THEN 0 ELSE ms[k - 1].e,
                         IF k > Len(ms) THEN Len(s) ELSE ms[k].s)]>>)

\* m.group(n)
Group(s, m, n) == Slice(s, m.g[n][1], m.g[n][2])

\* ======================================================================
\* src/assets/helpers/event_location_v2.py
\* ======================================================================

\* ------------------------------------------------------------ pycountry
\* The external registry, as the extract of ISO 3166-1 the names of the
\* model touch (GER, SUI and the like are IOC codes and are not in it).
PycountryCountries ==
  << [alpha_3 |-> <<"A","U","S">>, alpha_2 |-> <<"A","U">>, name |-> <<"A","u","s","t","r","a","l","i","a">>],
     [alpha_3 |-> <<"C","H","N">>, alpha_2 |-> <<"C","N">>, name |-> <<"C","h","i","n","a">>],
     [alpha_3 |-> <<"F","R","A">>, alpha_2 |-> <<"F","R">>, name |-> <<"F","r","a","n","c","e">>],
     [alpha_3 |-> <<"D","E","U">>, alpha_2 |-> <<"D","E">>, name |-> <<"G","e","r","m","a","n","y">>],
     [alpha_3 |-> <<"H","K","G">>, alpha_2 |-> <<"H","K">>, name |-> <<"H","o","n","g"," ","K","o","n","g">>],
     [alpha_3 |-> <<"I","D","N">>, alpha_2 |-> <<"I","D">>, name |-> <<"I","n","d","o","n","e","s","i","a">>],
     [alpha_3 |-> <<"I","R","N">>, alpha_2 |-> <<"I","R">>, name |-> <<"I","r","a","n",","," ","I","s","l","a","m","i","c"," ","R","e","p","u","b","l","i","c"," ","o","f">>],
     [alpha_3 |-> <<"P","R","K">>, alpha_2 |-> <<"K","P">>, name |-> <<"K","o","r","e","a",","," ","D","e","m","o","c","r","a","t","i","c"," ","P","e","o","p","l","e","'","s"," ","R","e","p","u","b","l","i","c"," ","o","f">>],
     [alpha_3 |-> <<"K","O","R">>, alpha_2 |-> <<"K","R">>, name |-> <<"K","o","r","e","a",","," ","R","e","p","u","b","l","i","c"," ","o","f">>],
     [alpha_3 |-> <<"M","Y","S">>, alpha_2 |-> <<"M","Y">>, name |-> <<"M","a","l","a","y","s","i","a">>],
     [alpha_3 |-> <<"N","C","L">>, alpha_2 |-> <<"N","C">>, name |-> <<"N","e","w"," ","C","a","l","e","d","o","n","i","a">>],
     [alpha_3 |-> <<"P","E","R">>, alpha_2 |-> <<"P","E">>, name |-> <<"P","e","r","u">>],
     [alpha_3 |-> <<"S","R","B">>, alpha_2 |-> <<"R","S">>, name |-> <<"S","e","r","b","i","a">>],
     [alpha_3 |-> <<"A","R","E">>, alpha_2 |-> <<"A","E">>, name |-> <<"U","n","i","t","e","d"," ","A","r","a","b"," ","E","m","i","r","a","t","e","s">>],
     [alpha_3 |-> <<"G","B","R">>, alpha_2 |-> <<"G","B">>, name |-> <<"U","n","i","t","e","d"," ","K","i","n","g","d","o","m">>],
     [alpha_3 |-> <<"U","S","A">>, alpha_2 |-> <<"U","S">>, name |-> <<"U","n","i","t","e","d"," ","S","t","a","t","e","s">>] >>

\* what a registry call raises when it finds nothing
LookupError == <<"LookupError">>

FirstIndex(seq, P(_)) ==
  IF \E k \in 1..Len(seq) : P(seq[k])
  THEN CHOOSE k \in 1..Len(seq) : P(seq[k]) /\ \A j \in 1..(k - 1) : ~P(seq[j])
  ELSE 0

\* pycountry.countries.get(alpha_3=code): the record, or None
pycountry_countries_get(code) ==
  LET k == FirstIndex(Call("PycountryCountries", <<>>), LAMBDA c : Call("Lower", <<c.alpha_3>>) = Call("Lower", <<code>>))
  IN IF k = 0 THEN None ELSE Call("PycountryCountries", <<>>)[k].alpha_3

\* pycountry.countries.lookup(token).alpha_3: any field, case-insensitively;
\* raises LookupError when no record has the value
pycountry_countries_lookup(token) ==
  LET v == Call("Lower", <<token>>)
      k == FirstIndex(Call("PycountryCountries", <<>>),
             LAMBDA c : v \in {Call("Lower", <<c.alpha_2>>), Call("Lower", <<c.alpha_3>>), Call("Lower", <<c.name>>)})
  IN IF k = 0 THEN LookupError ELSE Call("PycountryCountries", <<>>)[k].alpha_3

\* pycountry.countries.search_fuzzy(s)[0].alpha_3: the best record whose
\* name holds the query; raises LookupError when there is none
pycountry_countries_search_fuzzy(s) ==
  LET v == Call("Lower", <<Call("StripWs", <<s>>)>>)
      k == FirstIndex(Call("PycountryCountries", <<>>), LAMBDA c : Call("Contains", <<Call("Lower", <<c.name>>), v>>))
  IN IF k = 0 THEN LookupError ELSE Call("PycountryCountries", <<>>)[k].alpha_3

\* ------------------------------------------------------------ patterns

\* \(\s*([A-Z]{3})\s*\)
COUNTRY_ISO3_PAREN_RE ==
  Cat(<<Lit(<<"(">>), Star(Cls(Space)), Grp(1, Rep(Cls(Upper26), 3, 3)),
        Star(Cls(Space)), Lit(<<")">>)>>)
\* \b([A-Z]{3})\s*\)
COUNTRY_ISO3_RPAREN_RE ==
  Cat(<<WordB, Grp(1, Rep(Cls(Upper26), 3, 3)), Star(Cls(Space)), Lit(<<")">>)>>)
\* \b(?:19|20)\d{2}\b
YEAR_RE ==
  Cat(<<WordB, Alt(<<Lit(<<"1","9">>), Lit(<<"2","0">>)>>), Rep(Cls(Digit), 2, 2), WordB>>)
\* \(\s*([A-Za-z][A-Za-z \-\'’\.]{2,})\s*\)
PAREN_CONTENT_RE ==
  Cat(<<Lit(<<"(">>), Star(Cls(Space)),
        Grp(1, Cat(<<Cls(Upper26 \cup Lower26),
                     Rep(Cls(Upper26 \cup Lower26 \cup {" ", "-", "'", "rsquo", "."}),
                         2, -1)>>)),
        Star(Cls(Space)), Lit(<<")">>)>>)

LSB == {"L", "S", "B", "l", "s", "b"}
\* \(\s*[LSB](?:\s*(?:,|/)\s*[LSB]|\s*-\s*[LSB])*\s*\)   re.IGNORECASE
DISCIPLINE_BLOCK_RE ==
  Cat(<<Lit(<<"(">>), Star(Cls(Space)), Cls(LSB),
        Star(Alt(<<Cat(<<Star(Cls(Space)), Alt(<<Lit(<<",">>), Lit(<<"/">>)>>),
                         Star(Cls(Space)), Cls(LSB)>>),
                   Cat(<<Star(Cls(Space)), Lit(<<"-">>), Star(Cls(Space)), Cls(LSB)>>)>>)),
        Star(Cls(Space)), Lit(<<")">>)>>)
\* \(\s*(?:L|S|B)\s*\)   re.IGNORECASE
DISCIPLINE_PAREN_RE ==
  Cat(<<Lit(<<"(">>), Star(Cls(Space)), Alt(<<LitI(<<"L">>), LitI(<<"S">>), LitI(<<"B">>)>>),
        Star(Cls(Space)), Lit(<<")">>)>>)
\* a separator pattern that knows the comma only: ,\s*
SEP_COMMA_RE == Cat(<<Lit(<<",">>), Star(Cls(Space))>>)
\* (?:,\s*|\s-\s*|-\s+)
SEP_RE ==
  Alt(<<Cat(<<Lit(<<",">>), Star(Cls(Space))>>),
        Cat(<<Cls(Space), Lit(<<"-">>), Star(Cls(Space))>>),
        Cat(<<Lit(<<"-">>), Plus(Cls(Space))>>)>>)

\* ------------------------------------------------------------ tables

REGION_ABBREV ==
  { <<"N","S","W">>, <<"Q","L","D">>, <<"V","I","C">>, <<"T","A","S">>, <<"S","A">>, <<"W","A">>,
    <<"N","T">>, <<"A","C","T">> }
VENUE_CHUNKS ==
  { <<"c","e","n","t","u","r","y"," ","p","l","a","z","a">> }
US_STATE_NAMES ==
  { <<"A","l","a","b","a","m","a">>, <<"A","l","a","s","k","a">>, <<"A","r","i","z","o","n","a">>, <<"A","r","k","a","n","s","a","s">>, <<"C","a","l","i","f","o","r","n","i","a">>, <<"C","o","l","o","r","a","d","o">>,
    <<"C","o","n","n","e","c","t","i","c","u","t">>, <<"D","e","l","a","w","a","r","e">>, <<"F","l","o","r","i","d","a">>, <<"G","e","o","r","g","i","a">>, <<"H","a","w","a","i","i">>, <<"I","d","a","h","o">>,
    <<"I","l","l","i","n","o","i","s">>, <<"I","n","d","i","a","n","a">>, <<"I","o","w","a">>, <<"K","a","n","s","a","s">>, <<"K","e","n","t","u","c","k","y">>, <<"L","o","u","i","s","i","a","n","a">>,
    <<"M","a","i","n","e">>, <<"M","a","r","y","l","a","n","d">>, <<"M","a","s","s","a","c","h","u","s","e","t","t","s">>, <<"M","i","c","h","i","g","a","n">>, <<"M","i","n","n","e","s","o","t","a">>, <<"M","i","s","s","i","s","s","i","p","p","i">>,
    <<"M","i","s","s","o","u","r","i">>, <<"M","o","n","t","a","n","a">>, <<"N","e","b","r","a","s","k","a">>, <<"N","e","v","a","d","a">>, <<"N","e","w"," ","H","a","m","p","s","h","i","r","e">>, <<"N","e","w"," ","J","e","r","s","e","y">>,
    <<"N","e","w"," ","M","e","x","i","c","o">>, <<"N","e","w"," ","Y","o","r","k">>, <<"N","o","r","t","h"," ","C","a","r","o","l","i","n","a">>, <<"N","o","r","t","h"," ","D","a","k","o","t","a">>, <<"O","h","i","o">>, <<"O","k","l","a","h","o","m","a">>,
    <<"O","r","e","g","o","n">>, <<"P","e","n","n","s","y","l","v","a","n","i","a">>, <<"R","h","o","d","e"," ","I","s","l","a","n","d">>, <<"S","o","u","t","h"," ","C","a","r","o","l","i","n","a">>, <<"S","o","u","t","h"," ","D","a","k","o","t","a">>, <<"T","e","n","n","e","s","s","e","e">>,
    <<"T","e","x","a","s">>, <<"U","t","a","h">>, <<"V","e","r","m","o","n","t">>, <<"V","i","r","g","i","n","i","a">>, <<"W","a","s","h","i","n","g","t","o","n">>, <<"W","e","s","t"," ","V","i","r","g","i","n","i","a">>,
    <<"W","i","s","c","o","n","s","i","n">>, <<"W","y","o","m","i","n","g">> }
\* Fallback ISO3 list to avoid hard dependency on pycountry.
FALLBACK_ISO3_CODES ==
  { <<"A","R","G">>, <<"A","U","S">>, <<"A","U","T">>, <<"A","Z","E">>, <<"B","E","L">>, <<"B","U","L">>,
    <<"C","A","N">>, <<"C","H","I">>, <<"C","H","N">>, <<"C","M","A">>, <<"C","O","L">>, <<"C","R","O">>,
    <<"C","Y","P">>, <<"C","Z","E">>, <<"E","C","U">>, <<"E","S","P">>, <<"F","I","N">>, <<"F","R","A">>,
    <<"G","B","R">>, <<"G","E","R">>, <<"G","R","E">>, <<"H","K","G">>, <<"H","U","N">>, <<"I","D","N">>,
    <<"I","N","A">>, <<"I","N","D">>, <<"I","R","I">>, <<"I","R","N">>, <<"I","T","A">>, <<"J","O","R">>,
    <<"J","P","N">>, <<"K","A","Z">>, <<"K","O","R">>, <<"L","T","U">>, <<"M","A","S">>, <<"M","E","X">>,
    <<"M","K","D">>, <<"M","Y","S">>, <<"N","C","L">>, <<"N","E","D">>, <<"N","O","R">>, <<"N","Z","L">>,
    <<"P","E","R">>, <<"P","H","I">>, <<"P","O","L">>, <<"P","O","R">>, <<"P","R","K">>, <<"Q","A","T">>,
    <<"R","S","A">>, <<"R","U","S">>, <<"S","G","P">>, <<"S","I","N">>, <<"S","L","O">>, <<"S","R","B">>,
    <<"S","U","I">>, <<"S","V","K">>, <<"S","W","E">>, <<"T","H","A">>, <<"T","P","E">>, <<"U","K","R">>,
    <<"U","S","A">>, <<"V","E","N">> }
COUNTRY_NAME_OVERRIDES ==
  { <<<<"c","h","i","n","a">>, <<"C","H","N">>>>,
    <<<<"f","r","a","n","c","e">>, <<"F","R","A">>>>,
    <<<<"h","o","n","g"," ","k","o","n","g">>, <<"H","K","G">>>>,
    <<<<"i","n","d","o","n","e","s","i","a">>, <<"I","D","N">>>>,
    <<<<"i","r","a","n">>, <<"I","R","N">>>>,
    <<<<"m","a","l","a","y","s","i","a">>, <<"M","Y","S">>>>,
    <<<<"n","e","w"," ","c","a","l","e","d","o","n","i","a">>, <<"N","C","L">>>>,
    <<<<"p","e","r","u">>, <<"P","E","R">>>>,
    <<<<"r","e","p","u","b","l","i","c"," ","o","f"," ","k","o","r","e","a">>, <<"P","R","K">>>> }
\* COUNTRY_NAME_OVERRIDES.get(key)
OverrideGet(key) ==
  IF \E p \in Call("COUNTRY_NAME_OVERRIDES", <<>>) : p[1] = key
  THEN (CHOOSE p \in Call("COUNTRY_NAME_OVERRIDES", <<>>) : p[1] = key)[2]
  ELSE None

EVENT_KEYWORDS ==
  << <<"w","o","r","l","d"," ","c","h","a","m","p","i","o","n","s","h","i","p">>, <<"w","o","r","l","d"," ","c","h","a","m","p","i","o","n","s","h","i","p","s">>, <<"c","o","n","t","i","n","e","n","t","a","l"," ","c","h","a","m","p","i","o","n","s","h","i","p">>, <<"c","o","n","t","i","n","e","n","t","a","l"," ","c","h","a","m","p","i","o","n","s","h","i","p","s">>,
     <<"w","o","r","l","d"," ","c","u","p">>, <<"w","o","r","l","d","c","u","p">>, <<"c","h","a","m","p","i","o","n","s","h","i","p">>, <<"c","h","a","m","p","i","o","n","s","h","i","p","s">>,
     <<"c","u","p">>, <<"s","e","r","i","e","s">>, <<"o","p","e","n">>, <<"m","a","s","t","e","r","s">>,
     <<"f","e","s","t","i","v","a","l">>, <<"g","r","a","n","d"," ","p","r","i","x">>, <<"g","r","a","n","d","-","p","r","i","x">>, <<"y","o","u","t","h">>,
     <<"j","u","n","i","o","r">>, <<"s","e","n","i","o","r">>, <<"e","u","r","o","p","e","a","n">>, <<"a","s","i","a","n">>,
     <<"p","a","n","a","m","e","r","i","c","a","n">>, <<"a","f","r","i","c","a","n">>, <<"o","c","e","a","n","i","a">>, <<"q","u","a","l","i","f","i","e","r">>,
     <<"q","u","a","l","i","f","i","c","a","t","i","o","n">>, <<"q","u","a","l","i","f","i","c","a","t","i","o","n","s">>, <<"b","o","u","l","d","e","r","i","n","g">>, <<"c","l","i","m","b","i","n","g">>,
     <<"d","a","y","s">>, <<"r","o","c","k"," ","m","a","s","t","e","r">>, <<"r","o","c","k","m","a","s","t","e","r">>, <<"t","r","o","p","h","y">>,
     <<"c","o","m","p","e","t","i","t","i","o","n">>, <<"c","o","m","p","e","t","i","t","i","o","n","s">>, <<"r","o","c","k","s","t","a","r","s">>, <<"r","o","c","k","s","t","a","r">>,
     <<"g","a","m","e","s">> >>
\* sorted(ks, key=len, reverse=True): stable, longest first
RECURSIVE InsertByLen(_, _)
InsertByLen(sorted, w) ==
  IF sorted = <<>> THEN <<w>>
  ELSE IF Len(Head(sorted)) >= Len(w) THEN <<Head(sorted)>> \o InsertByLen(Tail(sorted), w)
  ELSE <<w>> \o sorted
RECURSIVE SortedByLenDesc(_)
SortedByLenDesc(ks) ==
  IF ks = <<>> THEN <<>>
  ELSE InsertByLen(SortedByLenDesc(SubSeq(ks, 1, Len(ks) - 1)), ks[Len(ks)])
AltOfKeywords(ks) ==
  LET sk == SortedByLenDesc(ks) IN Alt([k \in 1..Len(sk) |-> LitI(sk[k])])

\* \b(kw1|kw2|...)\b   re.IGNORECASE
EVENT_KEYWORD_RE == Cat(<<WordB, Grp(1, AltOfKeywords(EVENT_KEYWORDS)), WordB>>)

\* Keywords at end of a string: "... Darvas Cup" => "Darvas"
END_KEYWORDS ==
  << <<"c","u","p">>, <<"c","h","a","m","p","i","o","n","s","h","i","p">>, <<"c","h","a","m","p","i","o","n","s","h","i","p","s">>, <<"s","e","r","i","e","s">>,
     <<"o","p","e","n">>, <<"m","a","s","t","e","r","s">>, <<"t","r","o","p","h","y">>, <<"f","e","s","t","i","v","a","l">>,
     <<"g","a","m","e","s">>, <<"r","o","c","k"," ","m","a","s","t","e","r">>, <<"r","o","c","k","m","a","s","t","e","r">>, <<"c","o","m","p","e","t","i","t","i","o","n">>,
     <<"c","o","m","p","e","t","i","t","i","o","n","s">>, <<"c","l","i","m","b","i","n","g">>, <<"w","o","r","l","d">>, <<"w","o","r","l","d","c","u","p">>,
     <<"w","o","r","l","d"," ","c","u","p">> >>
\* \b(kw1|kw2|...)\b\s*$   re.IGNORECASE
END_KEYWORD_RE ==
  Cat(<<WordB, Grp(1, AltOfKeywords(END_KEYWORDS)), WordB, Star(Cls(Space)), Eol>>)

STOPWORDS ==
  { <<"o","f">>, <<"d","e">>, <<"d","e","l">>, <<"d","i">>, <<"d","a">>, <<"l","a">>, <<"l","e">>, <<"d","u">>, <<"d","e","s">>, <<"t","h","e">>, <<"a">>, <<"a","n">> }
\* re.split(r"\s+|-", kw): the pieces between runs of spaces and hyphens
RECURSIVE SplitSpaceHyphen(_)
SplitSpaceHyphen(kw) ==
  LET isSep(c) == c \in Space \cup {"-"}
      k == FirstIndex(kw, isSep)
  IN IF kw = <<>> THEN <<>>
     ELSE IF k = 0 THEN <<kw>>
     ELSE (IF k = 1 THEN <<>> ELSE <<SubSeq(kw, 1, k - 1)>>) \o SplitSpaceHyphen(From(kw, k))
KEYWORDS_WORDS ==
  LET kws == EVENT_KEYWORDS \o <<<<"i","f","s","c">>, <<"u","i","a","a">>, <<"x","-","g","a","m","e","s">>, <<"x">>, <<"g","a","m","e","s">>,
                                 <<"e","s","p","n">>, <<"i","n","t","l">>, <<"i","n","t">>>>
  IN UNION { { SplitSpaceHyphen(Lower(kws[k]))[j] :
                 j \in 1..Len(SplitSpaceHyphen(Lower(kws[k]))) } : k \in 1..Len(kws) }

\* Reject if these appear anywhere in the extracted city string
BLACKLIST_CITY_SUBSTR ==
  << <<"m","e","l","l","o","b","l","o","c","c","o">>, <<"t","h","e"," ","n","o","r","t","h"," ","f","a","c","e">>, <<"n","o","r","t","h"," ","f","a","c","e">> >>

\* ------------------------------------------------------------ country helpers

\* _pycountry_lookup_safe without its try/except: a LookupError of the
\* registry leaves the function
pycountry_lookup_unguarded(token) ==
  IF ~pycountry THEN None ELSE Call("pycountry_countries_lookup", <<token>>)

pycountry_lookup_safe(token) ==
  IF ~pycountry THEN None
  ELSE LET c == Call("pycountry_countries_lookup", <<token>>)
       IN \* try: ... except Exception: return None
          IF c = LookupError THEN None ELSE c

\* s.replace(a, b) for single characters
ReplaceCh(s, a, b) == [i \in 1..Len(s) |-> IF s[i] = a THEN b ELSE s[i]]

\* a word list that takes "hong" for a word of a country name too
STRONG_WORDS_AND_HONG ==
  { <<"r","e","p","u","b","l","i","c">>, <<"k","i","n","g","d","o","m">>, <<"u","n","i","t","e","d">>, <<"f","e","d","e","r","a","t","i","o","n">>, <<"d","e","m","o","c","r","a","t","i","c">>, <<"p","e","o","p","l","e">>,
    <<"s","t","a","t","e">>, <<"s","t","a","t","e","s">>, <<"e","m","i","r","a","t","e","s">>, <<"c","a","l","e","d","o","n","i","a">>, <<"i","s","l","a","n","d","s">>, <<"h","o","n","g">> }

STRONG_WORDS ==
  { <<"r","e","p","u","b","l","i","c">>, <<"k","i","n","g","d","o","m">>, <<"u","n","i","t","e","d">>, <<"f","e","d","e","r","a","t","i","o","n">>, <<"d","e","m","o","c","r","a","t","i","c">>, <<"p","e","o","p","l","e">>,
    <<"s","t","a","t","e">>, <<"s","t","a","t","e","s">>, <<"e","m","i","r","a","t","e","s">>, <<"c","a","l","e","d","o","n","i","a">>, <<"i","s","l","a","n","d","s">> }

FUZZY_MIN_LEN == 12

\* the guarded fuzzy search at the end of country_name_to_iso3_safe
fuzzy_safe(s) ==
  LET c == Call("pycountry_countries_search_fuzzy", <<s>>)
  IN \* try: ... except Exception: return None
     IF c = LookupError THEN None ELSE c

\* Conservative mapping for country names -> ISO3.  A LookupError that a
\* callee lets through is passed on.
country_name_to_iso3_safe(name) ==
  LET s0 == ReplaceCh(Call("Strip", <<Call("StripWs", <<name>>), {"."}>>), "rsquo", "'")
      s1 == IF Call("Upper", <<s0>>) \in {<<"U","K">>, <<"U",".","K",".">>} THEN <<"U","n","i","t","e","d"," ","K","i","n","g","d","o","m">> ELSE s0
      s  == IF Call("Upper", <<s1>>) = <<"U","A","E">> THEN <<"U","n","i","t","e","d"," ","A","r","a","b"," ","E","m","i","r","a","t","e","s">> ELSE s1
      override == Call("OverrideGet", <<Call("Lower", <<Call("StripWs", <<s>>)>>)>>)
      iso3 == Call("pycountry_lookup_safe", <<s>>)
      lower == Call("Lower", <<s>>)
      strong == \E k \in Call("STRONG_WORDS", <<>>) : Call("Contains", <<lower, k>>)
  IN IF Len(s0) <= 2 THEN None
     ELSE IF Call("Upper", <<s>>) = <<"U","S","A">> THEN <<"U","S","A">>
     ELSE IF override # None THEN override
     ELSE IF iso3 # None THEN iso3
     ELSE IF ~pycountry THEN None
     ELSE IF strong \/ Len(s) >= FUZZY_MIN_LEN THEN Call("fuzzy_safe", <<s>>)
     ELSE None

\* _is_known_iso3 that asks neither the registry nor the allow-list
is_any_iso3(code) == TRUE

\* _is_known_iso3 that knows no code
is_no_iso3(code) == FALSE

is_known_iso3(code) ==
  IF pycountry THEN Call("pycountry_countries_get", <<code>>) # None
  ELSE code \in Call("FALLBACK_ISO3_CODES", <<>>)

\* [A-Z]{3}
ISO3_RE == Rep(Cls(Upper26), 3, 3)

\* looks_like_country_token that knows the names of the countries and not
\* their codes
looks_like_country_name(token) ==
  LET t == Call("Strip", <<Call("StripWs", <<token>>), {",", ";"}>>)
  IN IF t = <<>> THEN None
     ELSE IF Call("FullMatch", <<Call("ISO3_RE", <<>>), t>>) THEN None
     ELSE Call("country_name_to_iso3_safe", <<t>>)

\* Return ISO3 if 'token' is clearly a country code/name; else None.
looks_like_country_token(token) ==
  LET t == Call("Strip", <<Call("StripWs", <<token>>), {",", ";"}>>)
  IN IF t = <<>> THEN None
     ELSE IF Call("FullMatch", <<Call("ISO3_RE", <<>>), t>>) THEN (IF Call("is_known_iso3", <<t>>) THEN t ELSE None)
     ELSE Call("country_name_to_iso3_safe", <<t>>)

\* ------------------------------------------------------------ city helpers

\* w.isupper(): a cased character, and none of them lower case
IsUpperStr(w) ==
  /\ \E i \in 1..Len(w) : w[i] \in Call("UpperChars", <<>>)
  /\ \A i \in 1..Len(w) : w[i] \notin Call("LowerChars", <<>>)
\* w.capitalize()
Capitalize(w) ==
  IF w = <<>> THEN w ELSE <<UpperCh(w[1])>> \o Call("Lower", <<Tail(w)>>)

\* If the string is mostly uppercase, return a nicer Title Case.
tidy_case(s) ==
  LET letters == SelectSeq(s, LAMBDA ch : ch \in Call("Alpha", <<>>))
      uppers == SelectSeq(s, LAMBDA ch : ch \in Call("UpperChars", <<>>))
      ws == Call("SplitWs", <<s>>)
  IN IF letters # <<>> /\ 10 * Len(uppers) > 9 * Len(letters)
     THEN Call("JoinSp", <<[k \in 1..Len(ws) |-> IF Call("IsUpperStr", <<ws[k]>>) THEN Call("Capitalize", <<ws[k]>>) ELSE ws[k]]>>)
     ELSE s

\* " ".join(words[-n:]) and " ".join(words[:-n])
LastWords(words, n) == Call("JoinSp", <<SubSeq(words, Len(words) - n + 1, Len(words))>>)
ButLastWords(words, n) == Call("JoinSp", <<SubSeq(words, 1, Len(words) - n)>>)

\* If city ends with a US state name (e.g. 'Denver Colorado'), strip the state.
strip_us_state_suffix(city) ==
  LET words == Call("SplitWs", <<city>>)
  IN IF city = <<>> \/ ~Call("Contains", <<city, <<" ">>>>) THEN city
     ELSE IF Len(words) > 2 /\ Call("LastWords", <<words, 2>>) \in Call("US_STATE_NAMES", <<>>)
          THEN Call("StripWs", <<Call("ButLastWords", <<words, 2>>)>>)
     ELSE IF Len(words) > 3 /\ Call("LastWords", <<words, 3>>) \in Call("US_STATE_NAMES", <<>>)
          THEN Call("StripWs", <<Call("ButLastWords", <<words, 3>>)>>)
     ELSE IF words[Len(words)] \in Call("US_STATE_NAMES", <<>>)
          THEN Call("StripWs", <<Call("ButLastWords", <<words, 1>>)>>)
     ELSE city

PREFIX_PHRASES ==
  << <<"s","p","e","e","d"," ","r","o","c","k">>, <<"b","l","o","c","m","a","s","t","e","r">>, <<"b","o","u","l","d","e","r","t","a","g">>, <<"n","i","k","o","l","o","k","l","e","t","t","e","r","n">>,
     <<"d","e","m","o","n","s","t","r","a","t","i","o","n">>, <<"t","r","i","g","l","a","v"," ","t","h","e"," ","r","o","c","k">>, <<"c","o","p","a"," ","a","l","d","e","a">>, <<"b","o","u","l","d","e","r","t","e","h","d","a","s">>,
     <<"m","a","s","t","e","r">> >>

\* \s+hips\b   re.IGNORECASE
HIPS_RE == Cat(<<Plus(Cls(Space)), LitI(<<"h","i","p","s">>), WordB>>)
\* \bprovince\b\s*$   re.IGNORECASE
PROVINCE_END_RE == Cat(<<WordB, LitI(<<"p","r","o","v","i","n","c","e">>), WordB, Star(Cls(Space)), Eol>>)
\* \s+province\s*$   re.IGNORECASE
PROVINCE_SUB_RE == Cat(<<Plus(Cls(Space)), LitI(<<"p","r","o","v","i","n","c","e">>), Star(Cls(Space)), Eol>>)

\* The statements of postprocess_city that rewrite `city`, in source order;
\* postprocess_stmt(k, ...) is the value of `city` after statement k.
POSTPROCESS_STMTS == 7
postprocess_stmt(k, city, country, ev) ==
  CASE \* 1) '... competition of Aggtelek' -> 'Aggtelek'
       k = 1 -> IF Call("StartsWith", <<Call("Lower", <<city>>), <<"o","f"," ">>>>) THEN Call("StripWs", <<From(city, 3)>>) ELSE city
       \* 2) Known event-prefix phrases that are not locations (first hit, then break)
    [] k = 2 ->
         LET ph == FirstIndex(Call("PREFIX_PHRASES", <<>>), LAMBDA p : Call("StartsWith", <<Call("Lower", <<city>>), p \o <<" ">>>>))
         IN IF ph # 0 THEN Call("StripWs", <<From(city, Len(Call("PREFIX_PHRASES", <<>>)[ph]) + 1)>>) ELSE city
       \* 3) 'Boulder Montpellier' (discipline word) but keep city 'Boulder'
    [] k = 3 -> IF Call("StartsWith", <<Call("Lower", <<city>>), <<"b","o","u","l","d","e","r"," ">>>>) /\ Call("Lower", <<Call("StripWs", <<city>>)>>) # <<"b","o","u","l","d","e","r">>
                THEN Call("StripWs", <<From(city, 8)>>) ELSE city
       \* 4) 'namBa HIPS' -> 'namBa' only when the raw name clearly contains that token
    [] k = 4 -> IF Call("EndsWith", <<Call("Lower", <<city>>), <<" ","h","i","p","s">>>>) /\ Call("Contains", <<ev, <<"n","a","m","b","a"," ","h","i","p","s">>>>)
                THEN Call("StripWs", <<Call("SubEmpty", <<Call("HIPS_RE", <<>>), city>>)>>) ELSE city
       \* 5) 'Qinghai Province' -> 'Qinghai' only when country is explicitly China (CHN)
    [] k = 5 -> IF country = <<"C","H","N">> /\ Call("Search", <<Call("PROVINCE_END_RE", <<>>), city>>).ok
                THEN Call("StripWs", <<Call("SubEmpty", <<Call("PROVINCE_SUB_RE", <<>>), city>>)>>) ELSE city
       \* 6) 'Denver Colorado' -> 'Denver' only when country is explicitly USA
    [] k = 6 -> IF country = <<"U","S","A">> /\ Call("strip_us_state_suffix", <<city>>) # <<>>
                THEN Call("strip_us_state_suffix", <<city>>) ELSE city
    [] k = 7 -> Call("StripWs", <<Call("tidy_case", <<city>>)>>)

\* statements lo..hi run on `city` in order: the first half of them, then the
\* second half on the outcome (no statement makes an empty str non-empty)
RECURSIVE postprocess_stmts(_, _, _, _, _)
postprocess_stmts(lo, hi, city, country, ev) ==
  IF city = <<>> THEN city
  ELSE IF lo = hi THEN Call("postprocess_stmt", <<lo, city, country, ev>>)
  ELSE postprocess_stmts((lo + hi) \div 2 + 1, hi,
                         postprocess_stmts(lo, (lo + hi) \div 2, city, country, ev),
                         country, ev)

\* postprocess_city that takes every country for the USA
postprocess_city_as_usa(city, country, event_name) ==
  LET c0 == Call("StripWs", <<city>>)
      ev == Call("Lower", <<event_name>>)
      c == Call("postprocess_stmts", <<1, POSTPROCESS_STMTS, c0, <<"U","S","A">>, ev>>)
  IN IF city = None THEN None
     ELSE IF c0 = <<>> THEN None
     ELSE IF Call("Contains", <<ev, <<"r","o","c","k"," ","j","u","n","i","o","r">>>>) /\ Call("Lower", <<c0>>) \in {<<"r","o","c","k">>, <<"r","o","c","k"," ","j","u","n","i","o","r">>}
          THEN None
     ELSE IF c = <<>> THEN None ELSE c

\* Targeted, low-risk fixes for a handful of known patterns.
postprocess_city(city, country, event_name) ==
  LET c0 == Call("StripWs", <<city>>)
      ev == Call("Lower", <<event_name>>)
      c == Call("postprocess_stmts", <<1, POSTPROCESS_STMTS, c0, country, ev>>)
  IN IF city = None THEN None
     ELSE IF c0 = <<>> THEN None
     ELSE IF Call("Contains", <<ev, <<"r","o","c","k"," ","j","u","n","i","o","r">>>>) /\ Call("Lower", <<c0>>) \in {<<"r","o","c","k">>, <<"r","o","c","k"," ","j","u","n","i","o","r">>}
          THEN None
     ELSE IF c = <<>> THEN None ELSE c

\* ^[^\w]+|[^\w]+$
EDGE_NONWORD_RE ==
  Alt(<<Cat(<<Bol, Plus(Cls(AnyChar \ WordChars))>>),
        Cat(<<Plus(Cls(AnyChar \ WordChars)), Eol>>)>>)
\* (19|20)\d{2}
YEAR_WORD_RE == Cat(<<Alt(<<Lit(<<"1","9">>), Lit(<<"2","0">>)>>), Rep(Cls(Digit), 2, 2)>>)

TAIL_MAX == 4

\* the loop of extract_tail_location over reversed(words), from words[k] down;
\* tail holds the words appended so far (last word first)
RECURSIVE TailWalk(_, _, _)
TailWalk(words, k, tail) ==
  IF k = 0 THEN tail
  ELSE LET w_clean == Call("SubEmpty", <<Call("EDGE_NONWORD_RE", <<>>), words[k]>>)
           wl == Call("Lower", <<w_clean>>)
       IN IF w_clean = <<>> THEN TailWalk(words, k - 1, tail)
          ELSE IF wl \in Call("STOPWORDS", <<>>) THEN TailWalk(words, k - 1, tail)
          ELSE IF wl \in Call("KEYWORDS_WORDS", <<>>) THEN tail
          ELSE IF Call("FullMatch", <<Call("YEAR_WORD_RE", <<>>), wl>>) THEN TailWalk(words, k - 1, tail)
          ELSE IF Len(tail) + 1 >= TAIL_MAX THEN Append(tail, w_clean)
          ELSE TailWalk(words, k - 1, Append(tail, w_clean))

\* reversed(seq)
Reversed(seq) == [k \in 1..Len(seq) |-> seq[Len(seq) + 1 - k]]

\* extract_tail_location that gives no tail when no keyword word stands in
\* the prefix
extract_tail_keyword_only(prefix) ==
  LET words == Call("SplitWs", <<prefix>>)
      tail == Call("TailWalk", <<words, Len(words), <<>>>>)
  IN IF tail = <<>> THEN None
     ELSE IF \A k \in 1..Len(words) :
                Call("Lower", <<Call("SubEmpty", <<Call("EDGE_NONWORD_RE", <<>>), words[k]>>)>>) \notin Call("KEYWORDS_WORDS", <<>>)
     THEN None
     ELSE Call("StripWs", <<Call("JoinSp", <<Reversed(tail)>>)>>)

\* Extract the tail of a prefix when we have "... <City>, <Country> <Year>"
\* but no other separators.
extract_tail_location(prefix) ==
  LET words == Call("SplitWs", <<prefix>>)
      tail == Call("TailWalk", <<words, Len(words), <<>>>>)
  IN IF tail = <<>> THEN None ELSE Call("StripWs", <<Call("JoinSp", <<Reversed(tail)>>)>>)

\* _last_match that returns the first of the matches
first_match(pattern, text) ==
  LET ms == Call("FindIter", <<pattern, text>>)
  IN IF ms = <<>> THEN Call("NoMatch", <<>>) ELSE ms[1]

\* _last_match(pattern, text)
last_match(pattern, text) ==
  LET ms == Call("FindIter", <<pattern, text>>)
  IN IF ms = <<>> THEN Call("NoMatch", <<>>) ELSE ms[Len(ms)]

cut_after_keywords(text) ==
  LET last == Call("last_match", <<Call("EVENT_KEYWORD_RE", <<>>), text>>)
      rest == Call("StripWs", <<Call("Strip", <<From(text, last.e), {" ", "-", ",", ":", ";"}>>)>>)
  IN IF last.ok /\ last.e < Len(text) /\ rest # <<>> /\ Call("HasAlpha", <<rest>>)
     THEN rest ELSE text

\* ^\d+\s*[\.\)]\s*
LEAD_NUMBER_RE ==
  Cat(<<Bol, Plus(Cls(Digit)), Star(Cls(Space)), Cls({".", ")"}), Star(Cls(Space))>>)
\* ^(?:\d+(?:st|nd|rd|th))\s+   re.IGNORECASE
LEAD_ORDINAL_RE ==
  Cat(<<Bol, Plus(Cls(Digit)),
        Alt(<<LitI(<<"s","t">>), LitI(<<"n","d">>), LitI(<<"r","d">>), LitI(<<"t","h">>)>>), Plus(Cls(Space))>>)
\* ^The\s+Rock\s+(.+)$   re.IGNORECASE
THE_ROCK_RE ==
  Cat(<<Bol, LitI(<<"T","h","e">>), Plus(Cls(Space)), LitI(<<"R","o","c","k">>), Plus(Cls(Space)),
        Grp(1, Plus(Cls(AnyChar))), Eol>>)
\* ^(.+?)\s+Natural\s+Games$   re.IGNORECASE
NATURAL_GAMES_RE ==
  Cat(<<Bol, Grp(1, RepLazy(Cls(AnyChar), 1, -1)), Plus(Cls(Space)), LitI(<<"N","a","t","u","r","a","l">>),
        Plus(Cls(Space)), LitI(<<"G","a","m","e","s">>), Eol>>)
\* ^AREA\s*47\s+   re.IGNORECASE
AREA47_RE ==
  Cat(<<Bol, LitI(<<"A","R","E","A">>), Star(Cls(Space)), Lit(<<"4","7">>), Plus(Cls(Space))>>)
\* Citt[àa][\'’]?\s*di\s*(.+)$   re.IGNORECASE
CITTA_DI_RE ==
  Cat(<<LitI(<<"C","i","t","t">>), Cls({"à", "a", "À", "A"}), Opt(Cls({"'", "rsquo"})),
        Star(Cls(Space)), LitI(<<"d","i">>), Star(Cls(Space)), Grp(1, Plus(Cls(AnyChar))), Eol>>)
\* \bX-?Games\b\.?$   re.IGNORECASE
XGAMES_END_RE ==
  Cat(<<WordB, LitI(<<"X">>), Opt(Lit(<<"-">>)), LitI(<<"G","a","m","e","s">>), WordB, Opt(Lit(<<".">>)), Eol>>)
\* \bESPN\b\.?$   re.IGNORECASE
ESPN_END_RE == Cat(<<WordB, LitI(<<"E","S","P","N">>), WordB, Opt(Lit(<<".">>)), Eol>>)

NOISE_EDGE ==
  { <<"i","f","s","c">>, <<"u","i","a","a">>, <<"c","l","i","m","b","i","n","g">>, <<"w","o","r","l","d">>, <<"c","u","p">>, <<"w","o","r","l","d","c","u","p">>, <<"c","h","a","m","p","i","o","n","s","h","i","p">>,
    <<"c","h","a","m","p","i","o","n","s","h","i","p","s">>, <<"s","e","r","i","e","s">>, <<"o","p","e","n">>, <<"m","a","s","t","e","r","s">>, <<"f","e","s","t","i","v","a","l">>, <<"e","v","e","n","t">>,
    <<"i","n","t","e","r","n","a","t","i","o","n","a","l">>, <<"i","n","t","e","r","n","a","t","i","o","n","a","l","s">>, <<"c","o","m","p","e","t","i","t","i","o","n">>, <<"c","o","m","p","e","t","i","t","i","o","n","s">>,
    <<"y","o","u","t","h">>, <<"j","u","n","i","o","r">>, <<"s","e","n","i","o","r">>, <<"d","a","y","s">>, <<"t","r","o","p","h","y">>, <<"x","-","g","a","m","e","s">>, <<"x","g","a","m","e","s">>,
    <<"e","s","p","n">>, <<"r","o","c","k","s","t","a","r","s">>, <<"r","o","c","k","s","t","a","r">>, <<"i","n","t">>, <<"i","n","t","l">> }

\* re.sub(r"^[^\w]+|[^\w]+$", "", w).lower() in noise_edge
IsEdgeNoise(w) == Call("Lower", <<Call("SubEmpty", <<Call("EDGE_NONWORD_RE", <<>>), w>>)>>) \in Call("NOISE_EDGE", <<>>)

\* the `while changed and words` loop of clean_city.  Each turn drops the
\* first word if it is noise, else the last word if it is noise, else stops:
\* what is left runs from the first word that is not noise to the last one
StripEdgeNoise(words) ==
  LET keep == { k \in 1..Len(words) : ~Call("IsEdgeNoise", <<words[k]>>) }
  IN IF keep = {} THEN <<>>
     ELSE SubSeq(words, CHOOSE k \in keep : \A j \in keep : k <= j,
                        CHOOSE k \in keep : \A j \in keep : k >= j)

EDGE_PUNCT == {",", ";", ":", "-"}
NON_CITY_NAMES == { <<"r","e","p","u","b","l","i","c"," ","o","f"," ","k","o","r","e","a">>, <<"k","o","r","e","a">>, <<"c","h","i","n","a">> }

\* The statements of clean_city that rewrite `c`, in source order;
\* clean_stmt(k, c) is the value of `c` after statement k.
CLEAN_STMTS == 18
clean_stmt(k, c) ==
  CASE k = 1 -> Call("SubEmpty", <<Call("DISCIPLINE_BLOCK_RE", <<>>), c>>)
    [] k = 2 -> Call("SubEmpty", <<Call("DISCIPLINE_PAREN_RE", <<>>), c>>)
    [] k = 3 -> Call("Strip", <<Call("StripWs", <<Call("NormWs", <<c>>)>>), {"\"", "'"}>>)
       \* Remove leading numbering like "3. BELGRADE ..."
    [] k = 4 -> Call("SubEmpty", <<Call("LEAD_NUMBER_RE", <<>>), c>>)
    [] k = 5 -> Call("SubEmpty", <<Call("LEAD_ORDINAL_RE", <<>>), c>>)
       \* Special patterns
    [] k = 6 -> LET m == Call("MatchStart", <<Call("THE_ROCK_RE", <<>>), c>>)
                IN IF m.ok THEN Call("StripWs", <<Group(c, m, 1)>>) ELSE c
    [] k = 7 -> LET m == Call("MatchStart", <<Call("NATURAL_GAMES_RE", <<>>), c>>)
                IN IF m.ok THEN Call("StripWs", <<Group(c, m, 1)>>) ELSE c
       \* Common venue prefix
    [] k = 8 -> Call("SubEmpty", <<Call("AREA47_RE", <<>>), c>>)
       \* "Citta di X"
    [] k = 9 -> LET m == Call("Search", <<Call("CITTA_DI_RE", <<>>), c>>)
                IN IF m.ok THEN Call("StripWs", <<Group(c, m, 1)>>) ELSE c
    [] k = 10 -> Call("StripWs", <<Call("Strip", <<Call("StripWs", <<c>>), EDGE_PUNCT>>)>>)
       \* If there's a year inside, keep tail after the last year
    [] k = 11 ->
         LET last == Call("last_match", <<Call("YEAR_RE", <<>>), c>>)
             tail == Call("StripWs", <<Call("Strip", <<From(c, last.e), {" ", ",", ";", ":", "-"}>>)>>)
         IN IF last.ok /\ tail # <<>> /\ Call("HasAlpha", <<tail>>) THEN tail ELSE c
       \* Cut after last event keyword if it leaves something meaningful
    [] k = 12 -> Call("cut_after_keywords", <<c>>)
       \* If ends with a keyword (and no rest), take prefix before keyword, then cut again
    [] k = 13 ->
         LET m_end == Call("Search", <<Call("END_KEYWORD_RE", <<>>), c>>)
             prefix == Call("StripWs", <<Call("Strip", <<Slice(c, 0, m_end.s), {" ", ",", ";", ":", "-"}>>)>>)
         IN IF m_end.ok /\ prefix # <<>> /\ Call("HasAlpha", <<prefix>>) THEN prefix ELSE c
    [] k = 14 -> Call("cut_after_keywords", <<c>>)
       \* Strip edge noise words
    [] k = 15 -> Call("StripWs", <<Call("Strip", <<Call("StripWs", <<Call("JoinSp", <<Call("StripEdgeNoise", <<Call("SplitWs", <<c>>)>>)>>)>>), EDGE_PUNCT>>)>>)
       \* Remove trailing ESPN / X-Games if still present
    [] k = 16 -> Call("StripWs", <<Call("SubEmpty", <<Call("XGAMES_END_RE", <<>>), c>>)>>)
    [] k = 17 -> Call("StripWs", <<Call("SubEmpty", <<Call("ESPN_END_RE", <<>>), c>>)>>)
    [] k = 18 -> Call("StripWs", <<Call("Strip", <<c, {" ", ",", ";", ":", "-"}>>)>>)

\* statements lo..hi run on `c` in order: the first half of them, then the
\* second half on the outcome (no statement makes an empty str non-empty)
RECURSIVE clean_stmts(_, _, _)
clean_stmts(lo, hi, c) ==
  IF c = <<>> THEN c
  ELSE IF lo = hi THEN Call("clean_stmt", <<lo, c>>)
  ELSE clean_stmts((lo + hi) \div 2 + 1, hi, clean_stmts(lo, (lo + hi) \div 2, c))

\* Normalize/clean a raw city candidate; None if it doesn't look like a location.
clean_city(city_raw) ==
  LET c == Call("tidy_case", <<Call("clean_stmts", <<1, CLEAN_STMTS, city_raw>>)>>)
      cl == Call("Lower", <<c>>)
  IN IF city_raw = None \/ city_raw = <<>> THEN None
     ELSE IF c = <<>> THEN None
     ELSE IF \E k \in 1..Len(Call("BLACKLIST_CITY_SUBSTR", <<>>)) : Call("Contains", <<cl, Call("BLACKLIST_CITY_SUBSTR", <<>>)[k]>>)
          THEN None
     ELSE IF cl \in Call("NON_CITY_NAMES", <<>>) THEN None
     ELSE IF Call("Contains", <<c, <<"(">>>>) \/ Call("Contains", <<c, <<")">>>>) THEN None
     ELSE IF ~Call("HasAlpha", <<c>>) THEN None
     \* If it's exactly an ISO3 country code, it's not a city
     ELSE IF Call("FullMatch", <<Call("ISO3_RE", <<>>), c>>) /\ Call("is_known_iso3", <<c>>) THEN None
     ELSE c

\* Clean + targeted postprocessing.
finalize_city(city_raw, country, event_name) ==
  Call("postprocess_city", <<Call("clean_city", <<city_raw>>), country, event_name>>)

\* left[a:b].strip().strip(" ,;:-")
Chunk(left, a, b) == Call("Strip", <<Call("StripWs", <<Slice(left, a, b)>>), {" ", ",", ";", ":", "-"}>>)

\* [A-Z]{2,3}
REGION_RE == Rep(Cls(Upper26), 2, 3)

\* the loop of _city_from_left_segment, for i in range(i, -1, -1); matches is
\* 1-based, so Python's matches[i] is matches[i + 1]
RECURSIVE CityFromLeftWalk(_, _, _)
CityFromLeftWalk(left, matches, i) ==
  IF i < 0 THEN <<>>
  ELSE LET m == matches[i + 1]
           chunk == Call("Chunk", <<left, m.e, Len(left)>>)
           prev == Call("Chunk", <<left, matches[i].e, m.s>>)
       IN IF chunk = <<>> THEN CityFromLeftWalk(left, matches, i - 1)
          ELSE IF Call("Lower", <<chunk>>) \in Call("VENUE_CHUNKS", <<>>) /\ i - 1 >= 0
               THEN (IF prev # <<>> THEN prev ELSE CityFromLeftWalk(left, matches, i - 1))
          ELSE IF Call("FullMatch", <<Call("REGION_RE", <<>>), chunk>>) /\ chunk \in Call("REGION_ABBREV", <<>>) /\ i - 1 >= 0
               THEN (IF prev # <<>> THEN prev ELSE CityFromLeftWalk(left, matches, i - 1))
          ELSE chunk

\* _city_from_left_segment that takes the whole text when no separator
\* splits it
city_from_left_or_all(left) ==
  LET matches == Call("FindIter", <<Call("SEP_RE", <<>>), left>>)
  IN IF matches = <<>> THEN Call("Chunk", <<left, 0, Len(left)>>)
     ELSE Call("CityFromLeftWalk", <<left, matches, Len(matches) - 1>>)

\* _city_from_left_segment that falls back on the words after the last
\* keyword when no separator splits the text
city_from_left_or_tail(left) ==
  LET matches == Call("FindIter", <<Call("SEP_RE", <<>>), left>>)
      tail == Call("extract_tail_location", <<left>>)
  IN IF matches = <<>> THEN (IF tail = None THEN <<>> ELSE tail)
     ELSE Call("CityFromLeftWalk", <<left, matches, Len(matches) - 1>>)

\* _city_from_left_segment that steps back over no chunk: the text after the
\* last separator that has a chunk after it
city_from_last_segment(left) ==
  LET matches == Call("FindIter", <<Call("SEP_RE", <<>>), left>>)
      full == { i \in 1..Len(matches) : Call("Chunk", <<left, matches[i].e, Len(left)>>) # <<>> }
  IN IF full = {} THEN <<>>
     ELSE Call("Chunk", <<left, matches[CHOOSE i \in full : \A j \in full : j <= i].e, Len(left)>>)

city_from_left_segment(left) ==
  LET matches == Call("FindIter", <<Call("SEP_RE", <<>>), left>>)
  IN Call("CityFromLeftWalk", <<left, matches, Len(matches) - 1>>)

\* ------------------------------------------------------------ public API

Result(city, country) == [city |-> city, country |-> country, raised |-> FALSE]
\* the call did not return: an exception left parse_city_country
RaisedResult == [city |-> None, country |-> None, raised |-> TRUE]

\* steps 1) and 2) of parse_city_country: the country anchor.  kind tells
\* which rule set it: "iso" for "(FRA)", "rparen" for the broken " CHN)",
\* "name" for "(France)", "none" when anchor is None.
CountryAnchor(s) ==
  LET m_iso == Call("last_match", <<Call("COUNTRY_ISO3_PAREN_RE", <<>>), s>>)
      m_iso2 == Call("last_match", <<Call("COUNTRY_ISO3_RPAREN_RE", <<>>), s>>)
      iso == Group(s, m_iso2, 1)
      m_name == Call("last_match", <<Call("PAREN_CONTENT_RE", <<>>), s>>)
      iso3 == Call("country_name_to_iso3_safe", <<Group(s, m_name, 1)>>)
      none == [kind |-> "none", country |-> None, s |-> -1, e |-> -1]
  IN IF m_iso.ok
     THEN [kind |-> "iso", country |-> Group(s, m_iso, 1), s |-> m_iso.s, e |-> m_iso.e]
     ELSE IF m_iso2.ok /\ Call("is_known_iso3", <<iso>>)
     THEN [kind |-> "rparen", country |-> iso, s |-> m_iso2.s, e |-> m_iso2.e]
     ELSE IF ~m_name.ok THEN none
     ELSE IF iso3 = LookupError
     THEN [kind |-> "raised", country |-> None, s |-> -1, e |-> -1]
     ELSE IF iso3 # None
     THEN [kind |-> "name", country |-> iso3, s |-> m_name.s, e |-> m_name.e]
     ELSE none

\* the text the separators are looked for in:
\* DISCIPLINE_BLOCK_RE.sub("", s[:a].rstrip())
LeftOf(s, a) == Call("SubEmpty", <<Call("DISCIPLINE_BLOCK_RE", <<>>), Call("RStrip", <<Slice(s, 0, a), Space>>)>>)

\* the loop of step 3 over the separators before the year, for i in
\* range(i, -1, -1)
RECURSIVE YearWalk(_, _, _, _)
YearWalk(s, left, matches, i) ==
  IF i < 0 THEN Result(None, None)
  ELSE LET m == matches[i + 1]
           after == Call("Chunk", <<left, m.e, Len(left)>>)
           maybe_country == Call("looks_like_country_token", <<after>>)
           city_part == Call("Chunk", <<left, matches[i].e, m.s>>)
           prefix == Call("StripWs", <<Slice(left, 0, m.s)>>)
           tail == Call("extract_tail_location", <<prefix>>)
       IN IF after = <<>> THEN YearWalk(s, left, matches, i - 1)
          ELSE IF maybe_country = LookupError THEN Call("RaisedResult", <<>>)
          ELSE IF maybe_country # None
               THEN (IF i - 1 >= 0
                     THEN Result(Call("finalize_city", <<city_part, maybe_country, s>>), maybe_country)
                     \* No earlier separator: extract tail of the prefix
                     ELSE Result(Call("finalize_city", <<IF tail = None THEN <<>> ELSE tail,
                                               maybe_country, s>>), maybe_country))
          \* State/province abbreviation (e.g. "NSW"): keep previous segment as city
          ELSE IF Call("FullMatch", <<Call("REGION_RE", <<>>), after>>) /\ i - 1 >= 0
               THEN Result(Call("finalize_city", <<city_part, None, s>>), None)
          \* Otherwise: last chunk is the city
          ELSE Result(Call("finalize_city", <<after, None, s>>), None)

\* a last statement that guesses the city from the words after the last
\* keyword word
NoAnchorTail(s) ==
  LET tail == Call("extract_tail_location", <<s>>)
  IN Result(Call("finalize_city", <<IF tail = None THEN <<>> ELSE tail, None, s>>), None)

\* a last statement that guesses the city from the text after the last
\* event keyword
NoAnchorAfterKeyword(s) ==
  LET rest == Call("cut_after_keywords", <<s>>)
  IN Result(IF rest = s THEN None ELSE Call("finalize_city", <<rest, None, s>>), None)

\* the last statement of parse_city_country: neither a country nor a year
\* anchors the name
NoAnchor(s) == Result(None, None)

\* the rest of parse_city_country once steps 1) and 2) have set the anchor
CityExtraction(s, anchor) ==
  LET m_year == Call("last_match", <<Call("YEAR_RE", <<>>), s>>)
      yleft == Call("LeftOf", <<s, m_year.s>>)
      matches == Call("FindIter", <<Call("SEP_RE", <<>>), yleft>>)
  IN IF anchor.kind = "raised" THEN Call("RaisedResult", <<>>)
     \* City extraction (country anchor case)
     ELSE IF anchor.kind # "none"
     THEN Result(Call("finalize_city", <<Call("city_from_left_segment", <<Call("LeftOf", <<s, anchor.s>>)>>),
                               anchor.country, s>>), anchor.country)
     \* 3) No country. Use last year as an anchor
     ELSE IF m_year.ok
     THEN (IF matches = <<>> THEN Result(None, None)
           ELSE Call("YearWalk", <<s, yleft, matches, Len(matches) - 1>>))
     ELSE NoAnchor(s)

\* Extract (city, country_iso3) from an event name.
parse_city_country(event_name) ==
  LET s == Call("NormWs", <<event_name>>) IN Call("CityExtraction", <<s, Call("CountryAnchor", <<s>>)>>)

\* ======================================================================
\* src/assets/helpers/event_location.py  (names that clash with the other
\* variant carry the suffix _v1)
\* ======================================================================

\* \(\s*(?P<country>[A-Z]{3})\s*\)
COUNTRY_RE ==
  Cat(<<Lit(<<"(">>), Star(Cls(Space)), Grp(1, Rep(Cls(Upper26), 3, 3)),
        Star(Cls(Space)), Lit(<<")">>)>>)
\* \b(?:19|20)\d{2}\b
YEAR_RE_v1 ==
  Cat(<<WordB, Alt(<<Lit(<<"1","9">>), Lit(<<"2","0">>)>>), Rep(Cls(Digit), 2, 2), WordB>>)
\* (?:\s-\s*|,\s*)
SEP_RE_v1 ==
  Alt(<<Cat(<<Cls(Space), Lit(<<"-">>), Star(Cls(Space))>>),
        Cat(<<Lit(<<",">>), Star(Cls(Space))>>)>>)

\* Return the last match of regex in s (or None).
last_match_v1(regex, s) ==
  LET ms == Call("FindIter", <<regex, s>>)
  IN IF ms = <<>> THEN Call("NoMatch", <<>>) ELSE ms[Len(ms)]

\* word followed by an optional s:  words?
OptS(w) == Cat(<<LitI(w), Opt(LitI(<<"s">>))>>)

\* the alternatives of ALT = "|".join(NOISE_TOKENS), in order, under
\* re.IGNORECASE; the dot of "int." is any character
NOISE_TOKENS ==
  << Cat(<<Lit(<<"(">>), Star(Cls(Space)), Alt(<<LitI(<<"L">>), LitI(<<"S">>), LitI(<<"B">>)>>),
           Star(Cls(Space)), Lit(<<")">>)>>),
     Cat(<<LitI(<<"r","o","c","k">>), Star(Cls(Space)), OptS(<<"m","a","s","t","e","r">>)>>),
     OptS(<<"m","a","s","t","e","r">>),
     OptS(<<"i","n","t","e","r","n","a","t","i","o","n","a","l">>),
     OptS(<<"y","o","u","t","h">>),
     OptS(<<"o","p","e","n">>),
     LitI(<<"b","o","u","l","d","e","r">>),
     LitI(<<"s","p","e","e","d">>),
     LitI(<<"l","e","a","d">>),
     LitI(<<"c","o","l","o","r">>),
     LitI(<<"c","l","i","m","b","i","n","g">>),
     LitI(<<"f","e","s","t","i","v","a","l">>),
     LitI(<<"c","u","p">>),
     LitI(<<"E","Y","O","F">>),
     LitI(<<"d","e","m","o","n","s","t","r","a","t","i","o","n">>),
     LitI(<<"e","u","r","o","p","e","a","n">>),
     OptS(<<"d","a","y">>),
     LitI(<<"F","I","S","E">>),
     LitI(<<"w","o","r","l","d">>),
     Cat(<<LitI(<<"s","e","r","i","e">>), Opt(LitI(<<"s">>))>>),
     Cat(<<LitI(<<"i","n","t">>), Cls(AnyChar)>>),
     OptS(<<"c","o","m","p","e","t","i","t","i","o","n">>),
     LitI(<<"j","u","n","i","o","r">>),
     OptS(<<"k","i","d">>),
     LitI(<<"o","f">>),
     LitI(<<"m","e","g","u","s","t","a">>),
     LitI(<<"1","0","t","h">>),
     LitI(<<"a","n","n","i","v","e","r","s","a","r","y">>) >>

ALT == Alt(NOISE_TOKENS)

\* One or more contiguous noise tokens separated by spaces:
\* (?:ALT)(?:\s+(?:ALT))*
NOISE_SEQ == Cat(<<ALT, Star(Cat(<<Plus(Cls(Space)), ALT>>))>>)

\* ^(?:(?P<city_left>.+?)\s+(?:NOISE_SEQ)|(?:NOISE_SEQ)\s+(?P<city_right>.+?))$
\* city_left is group 1, city_right group 2
EDGE_RE ==
  Cat(<<Bol,
        Alt(<<Cat(<<Grp(1, RepLazy(Cls(AnyChar), 1, -1)), Plus(Cls(Space)), NOISE_SEQ>>),
              Cat(<<NOISE_SEQ, Plus(Cls(Space)), Grp(2, RepLazy(Cls(AnyChar), 1, -1))>>)>>),
        Eol>>)

\* ^(?:NOISE_SEQ)$
ONLY_NOISE_RE == Cat(<<Bol, NOISE_SEQ, Eol>>)

\* c.strip().strip('"').strip()
StripQuoted(c) == Call("StripWs", <<Call("Strip", <<Call("StripWs", <<c>>), {"\""}>>)>>)

\* Citt[àa]['’]?\s*di\s*(.+)$   re.IGNORECASE
CITTA_DI_RE_v1 ==
  Cat(<<LitI(<<"C","i","t","t">>), Cls({"à", "a", "À", "A"}), Opt(Cls({"'", "rsquo"})),
        Star(Cls(Space)), LitI(<<"d","i">>), Star(Cls(Space)), Grp(1, Plus(Cls(AnyChar))), Eol>>)

\* the `while c and c != prev` loop of cleanup_city
RECURSIVE StripEdges(_, _)
StripEdges(c, prev) ==
  IF c = <<>> \/ c = prev THEN c
  ELSE LET m == Call("MatchStart", <<Call("EDGE_RE", <<>>), c>>)
           left == IF m.g[1] = NoSpan THEN <<>> ELSE Group(c, m, 1)
           right == IF m.g[2] = NoSpan THEN <<>> ELSE Group(c, m, 2)
       IN IF ~m.ok THEN c
          ELSE StripEdges(Call("StripQuoted", <<IF left # <<>> THEN left ELSE right>>), c)

\* Normalize and clean a 'city chunk' that may contain event noise words.
\* Returns the cleaned city string, or "" if it becomes empty / only noise.
cleanup_city(city) ==
  LET c0 == Call("StripQuoted", <<Call("NormWs", <<city>>)>>)
      m == Call("Search", <<Call("CITTA_DI_RE_v1", <<>>), c0>>)
      c1 == IF m.ok THEN Call("StripQuoted", <<Group(c0, m, 1)>>) ELSE c0
      c == Call("StripEdges", <<c1, None>>)
  IN IF c = <<>> \/ Call("MatchStart", <<Call("ONLY_NOISE_RE", <<>>), c>>).ok THEN <<>> ELSE c

\* Extract (city, country) from an event name string.
parse_city_country_v1(event_name) ==
  LET s == Call("NormWs", <<event_name>>)
      m_country == Call("last_match_v1", <<Call("COUNTRY_RE", <<>>), s>>)
      country == Group(s, m_country, 1)
      cleft == Call("RStrip", <<Slice(s, 0, m_country.s), Space>>)
      m_year == Call("last_match_v1", <<Call("YEAR_RE_v1", <<>>), s>>)
      yleft == Call("RStrip", <<Slice(s, 0, m_year.s), Space>>)
      left == IF m_country.ok THEN cleft ELSE yleft
      m_sep == Call("last_match_v1", <<Call("SEP_RE_v1", <<>>), left>>)
      city == Call("cleanup_city", <<Call("StripWs", <<From(left, m_sep.e)>>)>>)
  IN \* 1) Prefer last "(AAA)" anywhere
     IF m_country.ok
     THEN (IF ~m_sep.ok THEN Result(None, country)
           ELSE Result(IF city = <<>> THEN None ELSE city, country))
     \* 2) No country: use last year anywhere
     ELSE IF m_year.ok
     THEN (IF ~m_sep.ok THEN Result(None, None)
           ELSE Result(IF city = <<>> THEN None ELSE city, None))
     ELSE Result(None, None)

\* ======================================================================
\* src/data-fetch/data_content_fetcher.py: the fallbacks of the events pass
\* ======================================================================

\* a Python dict with no key
EmptyDict == [k \in {} |-> None]
\* d[k] = v
Put(d, k, v) == [x \in DOMAIN d \cup {k} |-> IF x = k THEN v ELSE d[x]]
\* bool(v) of a str or None
Truthy(v) == v # None /\ v # <<>>

\* event_city.strip().split(",")[0]
FirstCommaPart(event_city) ==
  LET t == Call("StripWs", <<event_city>>)
      k == FirstIndex(t, LAMBDA ch : ch = ",")
  IN IF k = 0 THEN t ELSE SubSeq(t, 1, k - 1)

\* a fallback that leaves the parser's city as it is
city_as_parsed(event_city, data) == event_city

\* if not event_city: event_city = data.get("location", None) ...
city_or_location(event_city, data) ==
  IF Truthy(event_city) THEN event_city
  ELSE IF Truthy(data.location) THEN Call("FirstCommaPart", <<data.location>>)
  ELSE data.location

\* a fallback that leaves the parser's country as it is
country_as_parsed(event_country, data) == event_country

\* if not event_country: event_country = data.get("country", None)
country_or_field(event_country, data) ==
  IF Truthy(event_country) THEN event_country ELSE data.country

\* The functions by name
Call(f, args) ==
  CASE f = "Search" -> Search(args[1], args[2])
    [] f = "MatchStart" -> MatchStart(args[1], args[2])
    [] f = "FullMatch" -> FullMatch(args[1], args[2])
    [] f = "FindIter" -> FindIter(args[1], args[2])
    [] f = "SubEmpty" -> SubEmpty(args[1], args[2])
    [] f = "last_match" -> last_match(args[1], args[2])
    [] f = "last_match_v1" -> last_match_v1(args[1], args[2])
    [] f = "pycountry_countries_get" -> pycountry_countries_get(args[1])
    [] f = "pycountry_countries_lookup" -> pycountry_countries_lookup(args[1])
    [] f = "pycountry_countries_search_fuzzy" -> pycountry_countries_search_fuzzy(args[1])
    [] f = "pycountry_lookup_safe" -> pycountry_lookup_safe(args[1])
    [] f = "country_name_to_iso3_safe" -> country_name_to_iso3_safe(args[1])
    [] f = "is_known_iso3" -> is_known_iso3(args[1])
    [] f = "looks_like_country_token" -> looks_like_country_token(args[1])
    [] f = "tidy_case" -> tidy_case(args[1])
    [] f = "strip_us_state_suffix" -> strip_us_state_suffix(args[1])
    [] f = "postprocess_city" -> postprocess_city(args[1], args[2], args[3])
    [] f = "extract_tail_location" -> extract_tail_location(args[1])
    [] f = "cut_after_keywords" -> cut_after_keywords(args[1])
    [] f = "clean_city" -> clean_city(args[1])
    [] f = "finalize_city" -> finalize_city(args[1], args[2], args[3])
    [] f = "city_from_left_segment" -> city_from_left_segment(args[1])
    [] f = "CountryAnchor" -> CountryAnchor(args[1])
    [] f = "CityExtraction" -> CityExtraction(args[1], args[2])
    [] f = "parse_city_country" -> parse_city_country(args[1])
    [] f = "cleanup_city" -> cleanup_city(args[1])
    [] f = "parse_city_country_v1" -> parse_city_country_v1(args[1])
    [] f = "Lower" -> Lower(args[1])
    [] f = "Upper" -> Upper(args[1])
    [] f = "RunLen" -> RunLen(args[1], args[2], args[3])
    [] f = "RunLenBack" -> RunLenBack(args[1], args[2])
    [] f = "LStrip" -> LStrip(args[1], args[2])
    [] f = "RStrip" -> RStrip(args[1], args[2])
    [] f = "Strip" -> Strip(args[1], args[2])
    [] f = "StripWs" -> StripWs(args[1])
    [] f = "Flatten" -> Flatten(args[1])
    [] f = "SplitWs" -> SplitWs(args[1])
    [] f = "JoinSp" -> JoinSp(args[1])
    [] f = "NormWs" -> NormWs(args[1])
    [] f = "Contains" -> Contains(args[1], args[2])
    [] f = "StartsWith" -> StartsWith(args[1], args[2])
    [] f = "EndsWith" -> EndsWith(args[1], args[2])
    [] f = "HasAlpha" -> HasAlpha(args[1])
    [] f = "MatchAt" -> MatchAt(args[1], args[2], args[3])
    [] f = "MatchesAtAll" -> MatchesAtAll(args[1], args[2])
    [] f = "OverrideGet" -> OverrideGet(args[1])
    [] f = "fuzzy_safe" -> fuzzy_safe(args[1])
    [] f = "IsUpperStr" -> IsUpperStr(args[1])
    [] f = "Capitalize" -> Capitalize(args[1])
    [] f = "postprocess_stmt" -> postprocess_stmt(args[1], args[2], args[3], args[4])
    [] f = "postprocess_stmts" -> postprocess_stmts(args[1], args[2], args[3], args[4], args[5])
    [] f = "TailWalk" -> TailWalk(args[1], args[2], args[3])
    [] f = "IsEdgeNoise" -> IsEdgeNoise(args[1])
    [] f = "StripEdgeNoise" -> StripEdgeNoise(args[1])
    [] f = "clean_stmt" -> clean_stmt(args[1], args[2])
    [] f = "clean_stmts" -> clean_stmts(args[1], args[2], args[3])
    [] f = "Chunk" -> Chunk(args[1], args[2], args[3])
    [] f = "CityFromLeftWalk" -> CityFromLeftWalk(args[1], args[2], args[3])
    [] f = "LeftOf" -> LeftOf(args[1], args[2])
    [] f = "YearWalk" -> YearWalk(args[1], args[2], args[3], args[4])
    [] f = "StripEdges" -> StripEdges(args[1], args[2])
    [] f = "StripQuoted" -> StripQuoted(args[1])
    [] f = "LastWords" -> LastWords(args[1], args[2])
    [] f = "ButLastWords" -> ButLastWords(args[1], args[2])
    [] f = "FirstCommaPart" -> FirstCommaPart(args[1])
    [] f = "city_or_location" -> city_or_location(args[1], args[2])
    [] f = "country_or_field" -> country_or_field(args[1], args[2])
    [] f = "ALT" -> ALT
    [] f = "AREA47_RE" -> AREA47_RE
    [] f = "Alpha" -> Alpha
    [] f = "AnyChar" -> AnyChar
    [] f = "BLACKLIST_CITY_SUBSTR" -> BLACKLIST_CITY_SUBSTR
    [] f = "CITTA_DI_RE" -> CITTA_DI_RE
    [] f = "CITTA_DI_RE_v1" -> CITTA_DI_RE_v1
    [] f = "COUNTRY_ISO3_PAREN_RE" -> COUNTRY_ISO3_PAREN_RE
    [] f = "COUNTRY_ISO3_RPAREN_RE" -> COUNTRY_ISO3_RPAREN_RE
    [] f = "COUNTRY_NAME_OVERRIDES" -> COUNTRY_NAME_OVERRIDES
    [] f = "COUNTRY_RE" -> COUNTRY_RE
    [] f = "CasePairs" -> CasePairs
    [] f = "DISCIPLINE_BLOCK_RE" -> DISCIPLINE_BLOCK_RE
    [] f = "DISCIPLINE_PAREN_RE" -> DISCIPLINE_PAREN_RE
    [] f = "Digit" -> Digit
    [] f = "EDGE_NONWORD_RE" -> EDGE_NONWORD_RE
    [] f = "EDGE_RE" -> EDGE_RE
    [] f = "END_KEYWORDS" -> END_KEYWORDS
    [] f = "END_KEYWORD_RE" -> END_KEYWORD_RE
    [] f = "ESPN_END_RE" -> ESPN_END_RE
    [] f = "EVENT_KEYWORDS" -> EVENT_KEYWORDS
    [] f = "EVENT_KEYWORD_RE" -> EVENT_KEYWORD_RE
    [] f = "EmptyDict" -> EmptyDict
    [] f = "FALLBACK_ISO3_CODES" -> FALLBACK_ISO3_CODES
    [] f = "HIPS_RE" -> HIPS_RE
    [] f = "ISO3_RE" -> ISO3_RE
    [] f = "KEYWORDS_WORDS" -> KEYWORDS_WORDS
    [] f = "LEAD_NUMBER_RE" -> LEAD_NUMBER_RE
    [] f = "LEAD_ORDINAL_RE" -> LEAD_ORDINAL_RE
    [] f = "LSB" -> LSB
    [] f = "Lower26" -> Lower26
    [] f = "LowerChars" -> LowerChars
    [] f = "LowerOf" -> LowerOf
    [] f = "NATURAL_GAMES_RE" -> NATURAL_GAMES_RE
    [] f = "NOISE_EDGE" -> NOISE_EDGE
    [] f = "NOISE_SEQ" -> NOISE_SEQ
    [] f = "NOISE_TOKENS" -> NOISE_TOKENS
    [] f = "NON_CITY_NAMES" -> NON_CITY_NAMES
    [] f = "NoMatch" -> NoMatch
    [] f = "ONLY_NOISE_RE" -> ONLY_NOISE_RE
    [] f = "PAREN_CONTENT_RE" -> PAREN_CONTENT_RE
    [] f = "PREFIX_PHRASES" -> PREFIX_PHRASES
    [] f = "PROVINCE_END_RE" -> PROVINCE_END_RE
    [] f = "PROVINCE_SUB_RE" -> PROVINCE_SUB_RE
    [] f = "Punct" -> Punct
    [] f = "PycountryCountries" -> PycountryCountries
    [] f = "REGION_ABBREV" -> REGION_ABBREV
    [] f = "REGION_RE" -> REGION_RE
    [] f = "RaisedResult" -> RaisedResult
    [] f = "SEP_COMMA_RE" -> SEP_COMMA_RE
    [] f = "SEP_RE" -> SEP_RE
    [] f = "SEP_RE_v1" -> SEP_RE_v1
    [] f = "STOPWORDS" -> STOPWORDS
    [] f = "STRONG_WORDS" -> STRONG_WORDS
    [] f = "STRONG_WORDS_AND_HONG" -> STRONG_WORDS_AND_HONG
    [] f = "THE_ROCK_RE" -> THE_ROCK_RE
    [] f = "US_STATE_NAMES" -> US_STATE_NAMES
    [] f = "Upper26" -> Upper26
    [] f = "UpperChars" -> UpperChars
    [] f = "UpperOf" -> UpperOf
    [] f = "VENUE_CHUNKS" -> VENUE_CHUNKS
    [] f = "WordChars" -> WordChars
    [] f = "XGAMES_END_RE" -> XGAMES_END_RE
    [] f = "YEAR_RE" -> YEAR_RE
    [] f = "YEAR_RE_v1" -> YEAR_RE_v1
    [] f = "YEAR_WORD_RE" -> YEAR_WORD_RE

\* ======================================================================
\* The calls: an event name is handed to the parsers and to clean_city
\* ======================================================================

\* The pieces event names are put together from
Fragments ==
  { <<"C","u","p">>, <<"P","a","r","i","s">>, <<"3","."," ">>, <<" ","-"," ">>, <<","," ">>, <<" ","2","0","2","3">>,
    <<" ","(","F","R","A",")">>, <<" ","(","X","Y","Z",")">>, <<" ","C","H","N",")">>, <<" ","(","F","r","a","n","c","e",")">> }
\* the longest name, in fragments
MaxFrags == 3

\* the concatenations of at most n fragments
RECURSIVE FragmentNames(_)
FragmentNames(n) ==
  IF n = 0 THEN {<<>>}
  ELSE LET shorter == FragmentNames(n - 1)
       IN shorter \cup { a \o f : a \in shorter, f \in Fragments }

\* The names the documentation of the parsers quotes, and names at the
\* edges of their rules
ScenarioNames ==
  { <<"I","F","S","C"," ","C","l","i","m","b","i","n","g"," ","W","o","r","l","d"," ","C","u","p"," ","(","B",")"," ","-"," ","B","r","i","a","n","ç","o","n"," ","(","F","R","A",")"," ","2","0","2","3">>,
    <<"B","o","u","l","d","e","r"," ","M","a","s","t","e","r","s"," ","M","u","n","i","c","h">>,
    <<"Y","o","u","t","h"," ","C","o","l","o","r"," ","C","l","i","m","b","i","n","g"," ","F","e","s","t","i","v","a","l"," ","I","m","s","t">>,
    <<"3","."," ","B","e","l","g","r","a","d","e"," ","O","p","e","n"," ","(","S","R","B",")">>,
    <<"3","."," ","B","e","l","g","r","a","d","e"," ","O","p","e","n">>,
    <<"P","o","r","t"," ","M","a","q","u","a","r","i","e",","," ","N","S","W"," ","(","A","U","S",")">>,
    <<"O","p","e","n",","," ","D","e","n","v","e","r"," ","C","o","l","o","r","a","d","o",","," ","U","S","A"," ","1","9","9","7">>,
    <<"I","F","S","C"," ","A","s","i","a","n"," ","C","u","p"," ","H","o","n","g"," ","K","o","n","g",","," ","C","H","N"," ","2","0","1","2">>,
    <<"C","u","p",","," ","B","e","r","l","i","n"," ","(","G","e","r","m","a","n","y",")">>,
    <<"C","u","p",","," ","D","u","b","a","i"," ","(","A","r","a","b"," ","E","m","i","r","a","t","e","s",")">>,
    <<"C","u","p",","," ","L","y","o","n"," ","(","P","a","r","i","s",")">>,
    <<"P","a","r","i","s","-","(","B",")"," ","L","y","o","n"," ","(","F","R","A",")">>,
    <<"C","u","p"," ","-"," ","o","f"," ","5"," ","(","F","R","A",")">>,
    <<"C","u","p",","," ","(","P","a","r","i","s"," ","(","F","R","A",")">>,
    <<"C","u","p"," ","-"," ","F","R","A"," ","(","A","U","T",")">>,
    <<"C","u","p",","," ","P","a","r","i","s"," ","X","Y","Z",")">>,
    <<"3","."," ","4","."," ","P","a","r","i","s">>,
    <<"M","e","l","l","o","b","l","o","c","c","o"," ","2","0","1","5">>,
    <<"C","u","p",","," ","M","e","l","l","o","b","l","o","c","c","o"," ","(","I","T","A",")">>,
    <<"n","a","m","B","a"," ","H","I","P","S"," ","-"," ","N","o","r","t","h"," ","h","i","p","s"," ","F","a","c","e"," ","h","i","p","s"," ","(","F","R","A",")">>,
    <<"C","u","p",","," ","L","y","o","n"," ","(","F","r","a","n","c","e",")"," ","(","P","a","r","i","s",")">>,
    <<"C","u","p",","," ","P","a","r","i","s"," ","(","F","r","a","n","c","e",")"," ","X","Y","Z",")">>,
    <<"S","h","a","n","g","h","a","i",","," ","C","e","n","t","u","r","y"," ","P","l","a","z","a"," ","(","C","H","N",")">>,
    <<"W","o","r","l","d"," ","C","u","p"," ","-"," ","S","h","a","n","g","h","a","i",","," ","C","e","n","t","u","r","y"," ","P","l","a","z","a"," ","(","C","H","N",")">>,
    <<"A",","," ","P","o","r","t",","," ","N","S","W"," ","(","F","R","A",")">>,
    <<"A",","," ","P","o","r","t",","," ","N","S","W"," ","(","A","U","S",")">>,
    <<"A",","," ","P","o","r","t",","," ","X","Y"," ","(","A","U","S",")">>,
    <<"C","u","p",","," ","P","a","r","i","s",","," ","X","Y"," ","2","0","2","3">>,
    <<"C","u","p",","," ","P","a","r","i","s",","," ","N","S","W"," ","2","0","2","3">>,
    <<"C","u","p",","," ","P","a","r","i","s",","," ","F","R","A"," ","2","0","2","3">>,
    <<"P","a","r","i","s",","," ","F","R","A"," ","2","0","2","3">>,
    <<"I","F","S","C"," ","A","s","i","a","n"," ","C","u","p"," ","H","o","n","g"," ","K","o","n","g">>,
    <<"C","u","p"," ","o","n","e"," ","t","w","o"," ","t","h","r","e","e"," ","f","o","u","r"," ","f","i","v","e">>,
    <<"C","u","p",","," ","B","o","u","l","d","e","r"," ","(","U","S","A",")">>,
    <<"C","u","p",","," ","B","o","u","l","d","e","r"," ","M","o","n","t","p","e","l","l","i","e","r"," ","(","F","R","A",")">> }

\* Texts the helpers are handed on their own: city chunks, country tokens
\* and prefixes
HelperTexts ==
  { <<"D","e","n","v","e","r"," ","C","o","l","o","r","a","d","o">>, <<"W","e","s","t"," ","V","i","r","g","i","n","i","a">>, <<"N","e","w"," ","Y","o","r","k">>, <<"W","a","s","h","i","n","g","t","o","n">>,
    <<"A","l","b","a","n","y"," ","N","e","w"," ","Y","o","r","k">>, <<"C","h","a","r","l","e","s","t","o","n"," ","W","e","s","t"," ","V","i","r","g","i","n","i","a">>, <<"Q","i","n","g","h","a","i"," ","P","r","o","v","i","n","c","e">>,
    <<"Q","I","N","G","H","A","I"," ","P","R","O","V","I","N","C","E">>, <<"P","r","o","v","i","n","c","e">>, <<"B","o","u","l","d","e","r">>, <<"B","o","u","l","d","e","r"," ","M","o","n","t","p","e","l","l","i","e","r">>,
    <<"P","a","r","i","s">>, <<"P","A","R","I","S">>, <<"F","R","A">>, <<"C","H","N">>, <<"X","Y","Z">>, <<"F","r","a">>, <<"o","f"," ","A","g","g","t","e","l","e","k">>,
    <<"M","a","s","t","e","r"," ","W","A","R","S","A","W">>, <<"F","r","a","n","c","e">>, <<"H","o","n","g">>, <<"K","o","r","e","a">>, <<"E","m","i","r","a","t","e","s">>,
    <<"A","r","a","b"," ","E","m","i","r","a","t","e","s">>, <<"C","a","l","e","d","o","n","i","a">>, <<"I","s","l","a","n","d","s">>, <<"K","i","n","g","d","o","m">>, <<"U","n","i","t","e","d">>,
    <<"R","e","p","u","b","l","i","c">>, <<"F","e","d","e","r","a","t","i","o","n">>, <<"S","t","a","t","e","s">>, <<"P","e","o","p","l","e">>, <<"D","e","m","o","c","r","a","t","i","c">>,
    <<"I","r","a","n",","," ","I","s","l","a","m","i","c">>, <<"I","s","l","a","m","i","c"," ","R","e","p","u">>, <<"M","a","l","a","y","s">>, <<"C","u","p"," ","R","i","o"," ","d","e"," ","J","a","n","e","i","r","o">>,
    <<"C","u","p"," ","H","o","n","g"," ","o","f"," ","K","o","n","g">>, <<"I","F","S","C"," ","A","s","i","a","n"," ","C","u","p"," ","H","o","n","g"," ","K","o","n","g">>, <<"C","u","p"," ","P","a","r","i","s"," ","2","0","2","3">>,
    <<"S","a","l","t"," ","L","a","k","e"," ","C","i","t","y">>, <<"C","u","p">> }
\* the countries postprocess_city is handed
HelperCountries == { None, <<"U","S","A">>, <<"C","H","N">>, <<"F","R","A">> }

Names == ScenarioNames \cup FragmentNames(MaxFrags)

\* The callers of the parser that run side by side
Threads == {1, 2}

\* event_name : the name under study
\* call       : what has been called on it: "none", then "v2"
\*              (event_location_v2.parse_city_country), "v1"
\*              (event_location.parse_city_country), "clean" (clean_city) or
\*              "clean2" (clean_city on its own outcome), "tail"
\*              (extract_tail_location) or "left" (_city_from_left_segment on
\*              the text before the country anchor)
\* ret        : what the parser returned
\* cleaned    : the outcomes of the successive clean_city calls
\* tail       : what extract_tail_location returned
\* city_raw   : what _city_from_left_segment returned
\* pc, anchor, tret : per thread, where its parse_city_country call stands
\*              ("idle", "anchored", "done"), its local `anchor`, its outcome
VARIABLES event_name, call, ret, cleaned, tail, city_raw, pc, anchor, tret

\* The events pass of data-fetch/data_content_fetcher.py
\* data_list          : the fetched records, in the order scrape_parallel
\*                      returned them
\* pos                : the record the `for data in data_list` loop is at
\*                      (1-based; Len(data_list) + 1 once the loop is over)
\* Events             : the Events table of the content database, by ifsc_id
\* events_count, errors_count : the counters of the pass
\* event_cities       : event id -> city, of the events without a country
\* event_city_country : city -> country
\* filled             : the pass after the loop has run
VARIABLES data_list, pos, Events, events_count, errors_count,
          event_cities, event_city_country, filled
driver_vars == <<data_list, pos, Events, events_count, errors_count,
                 event_cities, event_city_country, filled>>

\* The helpers called on their own
\* country : the country postprocess_city was handed
\* out     : what the helper called last returned
VARIABLES country, out
helper_vars == <<country, out>>

\* scrape_parallel of assets/helpers/data_fetcher.py
\* data_ids      : the ids scrape_parallel was called with
\* fpc           : where the calling thread is
\* worker        : id -> where the fetch_data task of that id is
\* requests      : id -> the outcomes of the requests made for it, in order
\* data_queue, failed_queue : the queues the tasks of the round put on
\* info, failed_ids         : the locals of scrape_parallel, failed_ids also
\*                            that of retry_failed_info
\* retry_results, retry_count : the locals of retry_failed_info
VARIABLES data_ids, fpc, worker, requests, data_queue, failed_queue,
          info, failed_ids, retry_results, retry_count
fetch_vars == <<data_ids, fpc, worker, requests, data_queue, failed_queue,
                info, failed_ids, retry_results, retry_count>>

\* The loops of the parsers, a turn at a time
\* loop : the loop that runs and its locals
VARIABLES loop
loop_vars == <<loop>>

\* the variables the parsers and the events pass leave alone
other_vars == <<helper_vars, fetch_vars, loop_vars>>

\* the variables of the parsers and of the events pass
parse_vars == <<pycountry, event_name, call, ret, cleaned, tail, city_raw, pc, anchor, tret,
                driver_vars>>

vars == <<pycountry, event_name, call, ret, cleaned, tail, city_raw, pc, anchor, tret,
          driver_vars, other_vars>>

NoResult == Result(None, None)
NoAnchorYet == [kind |-> "none", country |-> None, s |-> -1, e |-> -1]

\* a call that gives the registry up: pycountry = None
pycountry_dropped_by_call(p, name) == FALSE

\* What a call leaves in the module global: parse_city_country and the
\* functions it calls assign no module-level name
pycountry_after_call(p, name) == p

\* the events pass has not begun and has nothing to do
DriverIdle ==
  /\ data_list = <<>>
  /\ pos = 1
  /\ Events = <<>>
  /\ events_count = 0
  /\ errors_count = 0
  /\ event_cities = <<>>
  /\ event_city_country = <<>>
  /\ filled = FALSE

\* no helper has been called on its own
HelperIdle ==
  /\ country = None
  /\ out = None

\* scrape_parallel has not been called
FetchIdle ==
  /\ data_ids = <<>>
  /\ fpc = "idle"
  /\ worker = <<>>
  /\ requests = <<>>
  /\ data_queue = <<>>
  /\ failed_queue = <<>>
  /\ info = <<>>
  /\ failed_ids = <<>>
  /\ retry_results = <<>>
  /\ retry_count = 0

\* no loop is followed a turn at a time
LoopIdle == loop = [fn |-> "none"]

\* nothing but the parsers and the events pass is under study
OthersIdle == HelperIdle /\ FetchIdle /\ LoopIdle

InitCommon ==
  /\ pycountry \in BOOLEAN
  /\ call = "none"
  /\ ret = NoResult
  /\ cleaned = <<>>
  /\ tail = None
  /\ city_raw = None
  /\ pc = [t \in Threads |-> "idle"]
  /\ anchor = [t \in Threads |-> NoAnchorYet]
  /\ tret = [t \in Threads |-> NoResult]

Init == event_name \in Names /\ InitCommon /\ DriverIdle /\ OthersIdle

\* event_location_v2.parse_city_country(event_name)
ParseV2 ==
  /\ call = "none"
  /\ call' = "v2"
  /\ ret' = Call("parse_city_country", <<event_name>>)
  /\ pycountry' = pycountry_after_call(pycountry, event_name)
  /\ UNCHANGED <<event_name, cleaned, tail, city_raw, pc, anchor, tret, driver_vars, other_vars>>

\* event_location.parse_city_country(event_name)
ParseV1 ==
  /\ call = "none"
  /\ call' = "v1"
  /\ ret' = Call("parse_city_country_v1", <<event_name>>)
  /\ UNCHANGED <<pycountry, event_name, cleaned, tail, city_raw, pc, anchor, tret, driver_vars, other_vars>>

\* clean_city(event_name): the name taken as a chunk
CleanCity ==
  /\ call = "none"
  /\ call' = "clean"
  /\ cleaned' = <<Call("clean_city", <<event_name>>)>>
  /\ UNCHANGED <<pycountry, event_name, ret, tail, city_raw, pc, anchor, tret, driver_vars, other_vars>>

\* clean_city on what clean_city returned
CleanAgain ==
  /\ call = "clean"
  /\ call' = "clean2"
  /\ cleaned' = Append(cleaned, Call("clean_city", <<cleaned[1]>>))
  /\ UNCHANGED <<pycountry, event_name, ret, tail, city_raw, pc, anchor, tret, driver_vars, other_vars>>

\* extract_tail_location(event_name): the name taken as a prefix
TailLocation ==
  /\ call = "none"
  /\ call' = "tail"
  /\ tail' = Call("extract_tail_location", <<event_name>>)
  /\ UNCHANGED <<pycountry, event_name, ret, cleaned, city_raw, pc, anchor, tret, driver_vars, other_vars>>

\* _city_from_left_segment(left), left being the text parse_city_country
\* hands it: what stands before the country anchor a of the name s
CityFromLeftOf(s, a) ==
  /\ a.kind \in {"iso", "rparen", "name"}
  /\ call' = "left"
  /\ city_raw' = Call("city_from_left_segment", <<Call("LeftOf", <<s, a.s>>)>>)
  /\ UNCHANGED <<pycountry, event_name, ret, cleaned, tail, pc, anchor, tret, driver_vars, other_vars>>

CityFromLeft ==
  /\ call = "none"
  /\ CityFromLeftOf(Call("NormWs", <<event_name>>), Call("CountryAnchor", <<Call("NormWs", <<event_name>>)>>))

Next == ParseV2 \/ ParseV1 \/ CleanCity \/ CleanAgain \/ TailLocation \/ CityFromLeft

Spec == Init /\ [][Next]_vars

\* ------------------------------------------------------------ helpers
\* The helpers of event_location_v2 called on a text of their own: a country
\* token, a city chunk, a prefix

InitHelpers == event_name \in HelperTexts /\ InitCommon /\ DriverIdle /\ OthersIdle

\* country_name_to_iso3_safe(event_name): the text taken as a country name
CountryName ==
  /\ call = "none"
  /\ call' = "country"
  /\ out' = Call("country_name_to_iso3_safe", <<event_name>>)
  /\ UNCHANGED <<pycountry, event_name, ret, cleaned, tail, city_raw, pc, anchor, tret,
                 driver_vars, country, fetch_vars, loop_vars>>

\* postprocess_city(event_name, c, event_name): the text taken as the city,
\* and as the name of the event it was found in
PostprocessCity ==
  /\ call = "none"
  /\ call' = "post"
  /\ \E c \in HelperCountries :
        /\ country' = c
        /\ out' = Call("postprocess_city", <<event_name, c, event_name>>)
  /\ UNCHANGED <<pycountry, event_name, ret, cleaned, tail, city_raw, pc, anchor, tret,
                 driver_vars, fetch_vars, loop_vars>>

NextHelpers == CountryName \/ PostprocessCity \/ CleanCity \/ CleanAgain \/ TailLocation

SpecHelpers == InitHelpers /\ [][NextHelpers]_vars

\* ------------------------------------------------------------ threads
\* Two threads call event_location_v2.parse_city_country on the same name;
\* a call is two steps, so that the other thread may run between them.

InitThreads == event_name \in ScenarioNames /\ InitCommon /\ DriverIdle /\ OthersIdle

\* steps 1) and 2) of the call of thread t
AnchorStep(t) ==
  /\ pc[t] = "idle"
  /\ pc' = [pc EXCEPT ![t] = "anchored"]
  /\ anchor' = [anchor EXCEPT ![t] = Call("CountryAnchor", <<Call("NormWs", <<event_name>>)>>)]
  /\ UNCHANGED <<pycountry, event_name, call, ret, cleaned, tail, city_raw, tret, driver_vars, other_vars>>

\* the city extraction of the call of thread t, and its return
CityStep(t) ==
  /\ pc[t] = "anchored"
  /\ pc' = [pc EXCEPT ![t] = "done"]
  /\ tret' = [tret EXCEPT ![t] = Call("CityExtraction", <<Call("NormWs", <<event_name>>), anchor[t]>>)]
  /\ pycountry' = pycountry_after_call(pycountry, event_name)
  /\ UNCHANGED <<event_name, call, ret, cleaned, tail, city_raw, anchor, driver_vars, other_vars>>

NextThreads == \E t \in Threads : AnchorStep(t) \/ CityStep(t)

SpecThreads == InitThreads /\ [][NextThreads]_vars

\* ------------------------------------------------------------ events pass
\* data-fetch/data_content_fetcher.py, `if DATA_TO_FETCH["events"]:` -- the
\* loop over the fetched records and the pass over event_cities after it.
\* A record is what the API gave for an event; a key the API left out reads
\* None, as data.get(key, None) gives it.  The records of the model list no
\* competition (d_cats is [] or is left out), so the Competitions table stays
\* as it is; the dates and the paraclimbing flag are copied as they come.

\* the most records of a pass
MaxRecords == 2

\* a row of Events as the earlier passes left it: name, city, country NULL
NullRow == [name |-> None, city |-> None, country |-> None]

\* what the API may give for an event, the ifsc_id apart
RecordChoices ==
  { [name |-> n, location |-> l, country |-> c, d_cats |-> <<>>] :
      n \in { <<"C","u","p",","," ","P","a","r","i","s"," ","(","F","R","A",")">>, <<"P","a","r","i","s"," ","(","F","R","A",")">>, <<"C","u","p",","," ","P","a","r","i","s"," ","2","0","2","3">>,
              <<"B","o","u","l","d","e","r"," ","M","a","s","t","e","r","s"," ","M","u","n","i","c","h">> },
      l \in { None, <<>>, <<" ","L","y","o","n"," ",","," ","F","R","A">> },
      c \in { None, <<"A","U","T">> } }
  \cup { [name |-> None, location |-> <<" ","L","y","o","n"," ",","," ","F","R","A">>, country |-> <<"A","U","T">>, d_cats |-> <<>>],
         [name |-> <<"P","a","r","i","s"," ","(","F","R","A",")">>, location |-> <<" ","L","y","o","n"," ",","," ","F","R","A">>, country |-> None,
          d_cats |-> None] }

InitDriver ==
  /\ pycountry = FALSE
  /\ event_name = <<>>
  /\ InitCommon
  /\ \E n \in 1..MaxRecords :
       \E choice \in [1..n -> RecordChoices] :
          data_list = [k \in 1..n |->
                         [ifsc_id |-> k, name |-> choice[k].name,
                          location |-> choice[k].location, country |-> choice[k].country,
                          d_cats |-> choice[k].d_cats]]
  \* the Events table has a row for every fetched id, or lacks one
  /\ \E missing \in 0..Len(data_list) :
       Events = [id \in (1..Len(data_list)) \ {missing} |-> NullRow]
  /\ pos = 1
  /\ events_count = 0
  /\ errors_count = 0
  /\ event_cities = Call("EmptyDict", <<>>)
  /\ event_city_country = Call("EmptyDict", <<>>)
  /\ filled = FALSE
  /\ OthersIdle

\* the statements of the try block from `if event_city and not event_country`
\* on, event_city and event_country being what the fallbacks left
StoreEvent(data, event_id, event_city, event_country) ==
  /\ event_cities' =
       IF Truthy(event_city) /\ ~Truthy(event_country)
       THEN Put(event_cities, event_id, event_city) ELSE event_cities
  /\ event_city_country' =
       IF Truthy(event_city) /\ Truthy(event_country)
       THEN Put(event_city_country, event_city, event_country)
       ELSE event_city_country
  /\ Events' = [Events EXCEPT ![event_id] =
                  [name |-> data.name, city |-> event_city, country |-> event_country]]
  /\ events_count' = events_count + 1
  \* `for comp in competitions:` of None raises after the UPDATE, which no
  \* rollback undoes
  /\ errors_count' = IF data.d_cats = None THEN errors_count + 1 ELSE errors_count

\* the try block from the parse on, the parser having returned parsed
ParseAndStore(data, parsed) ==
  StoreEvent(data, data.ifsc_id, Call("city_or_location", <<parsed.city, data>>),
             Call("country_or_field", <<parsed.country, data>>))

\* one turn of `for data in data_list:`, the try block and its except clause
ProcessRecord ==
  /\ pos <= Len(data_list)
  /\ LET data == data_list[pos]
     IN \* fetchone()[0] of no row, or event_name.split() of None: the except
        \* clause takes over before anything is stored
        IF data.ifsc_id \notin DOMAIN Events \/ data.name = None
        THEN /\ errors_count' = errors_count + 1
             /\ UNCHANGED <<Events, events_count, event_cities, event_city_country>>
        ELSE ParseAndStore(data, Call("parse_city_country_v1", <<data.name>>))
  /\ pos' = pos + 1
  /\ UNCHANGED <<pycountry, event_name, call, ret, cleaned, tail, city_raw, pc, anchor, tret,
                 data_list, filled, other_vars>>

\* the loop over event_cities.items() after the records: the events with a
\* city and no country take the country another event gave that city
FillCountries ==
  /\ pos > Len(data_list)
  /\ ~filled
  /\ filled' = TRUE
  /\ Events' = [id \in DOMAIN Events |->
                  IF id \in DOMAIN event_cities
                     /\ event_cities[id] \in DOMAIN event_city_country
                     /\ Truthy(event_city_country[event_cities[id]])
                  THEN [Events[id] EXCEPT !.country = event_city_country[event_cities[id]]]
                  ELSE Events[id]]
  /\ UNCHANGED <<pycountry, event_name, call, ret, cleaned, tail, city_raw, pc, anchor, tret,
                 data_list, pos, events_count, errors_count, event_cities,
                 event_city_country, other_vars>>

NextDriver == ProcessRecord \/ FillCountries

SpecDriver == InitDriver /\ [][NextDriver]_vars

\* --------------------------------------------- events pass, order of records
\* scrape_parallel hands the records over in the order the workers put them
\* on data_queue, so data_list is the fetched records in any order.

\* the records of a pass whose order is under study
OrderRecords == 3

\* what the API may give for such an event: its name and its country field
OrderChoices ==
  { [name |-> n, location |-> None, country |-> c, d_cats |-> <<>>] :
      n \in { <<"C","u","p",","," ","P","a","r","i","s"," ","2","0","2","3">>, <<"C","u","p",","," ","P","a","r","i","s"," ","(","F","R","A",")">> },
      c \in { None, <<"A","U","T">> } }

\* the orders n workers can complete in
Orderings(n) == { p \in [1..n -> 1..n] : \A i, j \in 1..n : p[i] = p[j] => i = j }

InitOrder ==
  /\ pycountry = FALSE
  /\ event_name = <<>>
  /\ InitCommon
  /\ \E choice \in [1..OrderRecords -> OrderChoices] :
       \E p \in Orderings(OrderRecords) :
          data_list = [k \in 1..OrderRecords |->
                         [ifsc_id |-> p[k], name |-> choice[p[k]].name,
                          location |-> choice[p[k]].location,
                          country |-> choice[p[k]].country,
                          d_cats |-> choice[p[k]].d_cats]]
  /\ Events = [id \in 1..OrderRecords |-> NullRow]
  /\ pos = 1
  /\ events_count = 0
  /\ errors_count = 0
  /\ event_cities = Call("EmptyDict", <<>>)
  /\ event_city_country = Call("EmptyDict", <<>>)
  /\ filled = FALSE
  /\ OthersIdle

SpecOrder == InitOrder /\ [][NextDriver]_vars

\* ------------------------------------------------------------ scrape_parallel
\* assets/helpers/data_fetcher.py.  The calling thread submits a fetch_data
\* task for every id, leaves the `with ThreadPoolExecutor` block when every
\* task has finished, and empties the two queues; retry_failed_info does the
\* same for the failed ids, max_retries times at most.  A task is two steps,
\* the request and the put, and the tasks of a round run in any order (a pool
\* of fewer workers than tasks allows fewer orders, none that is not here).

\* the most ids of a call
MaxIds == 2

\* retry_failed_info(endpoint, failed_ids, max_retries=2, delay=2)
max_retries == 2

\* how a request can end: status 200 and a JSON object; another status; an
\* exception (of requests.get, of response.json(), of the item assignment)
Outcomes == { "ok", "status", "error" }

\* the lists of distinct ids
IdLists ==
  { l \in UNION { [1..n -> 1..MaxIds] : n \in 0..MaxIds } :
      \A i, j \in DOMAIN l : l[i] = l[j] => i = j }

\* the set of the items of a list
Items(l) == { l[k] : k \in DOMAIN l }

\* leaving the `with ThreadPoolExecutor(...)` block: shutdown(wait=True)
\* returns once every submitted task has finished
round_over_at_once(w) == TRUE

round_over(w) == \A id \in DOMAIN w : w[id] = "done"

\* the ids of a retry round that are submitted whatever became of them
retry_every_id(failed, ids) == ids

\* `for data_id in failed_ids:` of retry_failed_info
retry_ids(failed, ids) == failed

InitFetch ==
  /\ pycountry = FALSE
  /\ event_name = <<>>
  /\ InitCommon
  /\ DriverIdle
  /\ HelperIdle
  /\ LoopIdle
  /\ data_ids \in IdLists
  /\ fpc = "submit"
  /\ worker = [id \in Items(data_ids) |-> "idle"]
  /\ requests = [id \in Items(data_ids) |-> <<>>]
  /\ data_queue = <<>>
  /\ failed_queue = <<>>
  /\ info = <<>>
  /\ failed_ids = <<>>
  /\ retry_results = <<>>
  /\ retry_count = 0

\* scrape_parallel: `for data_id in data_ids: ... executor.submit(fetch_data, ...)`
Submit ==
  /\ fpc = "submit"
  /\ fpc' = "wait"
  /\ worker' = [id \in DOMAIN worker |-> "queued"]
  /\ UNCHANGED <<parse_vars, helper_vars, loop_vars, data_ids, requests, data_queue,
                 failed_queue, info, failed_ids, retry_results, retry_count>>

\* fetch_data: requests.get(url, ...) with what comes of it
FetchRequest ==
  /\ \E id \in DOMAIN worker :
       /\ worker[id] = "queued"
       /\ \E o \in Outcomes :
            /\ worker' = [worker EXCEPT ![id] = o]
            /\ requests' = [requests EXCEPT ![id] = Append(@, o)]
  /\ UNCHANGED <<parse_vars, helper_vars, loop_vars, data_ids, fpc, data_queue,
                 failed_queue, info, failed_ids, retry_results, retry_count>>

\* fetch_data: data_queue.put(data) of the record tagged with the id, or
\* failed_queue.put(data_id) in the else branch and in the except clause
FetchPut ==
  /\ \E id \in DOMAIN worker :
       /\ worker[id] \in Outcomes
       /\ worker' = [worker EXCEPT ![id] = "done"]
       /\ data_queue' = IF worker[id] = "ok"
                        THEN Append(data_queue, [ifsc_id |-> id]) ELSE data_queue
       /\ failed_queue' = IF worker[id] = "ok"
                          THEN failed_queue ELSE Append(failed_queue, id)
  /\ UNCHANGED <<parse_vars, helper_vars, loop_vars, data_ids, fpc, requests,
                 info, failed_ids, retry_results, retry_count>>

\* scrape_parallel: the end of the with block, the two `while not
\* ....empty()` loops and `if failed_ids:`
Collect ==
  /\ fpc = "wait"
  /\ round_over(worker)
  /\ info' = info \o data_queue
  /\ failed_ids' = failed_ids \o failed_queue
  /\ data_queue' = <<>>
  /\ failed_queue' = <<>>
  /\ fpc' = IF failed_ids \o failed_queue # <<>> THEN "retry" ELSE "return"
  /\ UNCHANGED <<parse_vars, helper_vars, loop_vars, data_ids, worker, requests,
                 retry_results, retry_count>>

\* retry_failed_info: a turn of `for retry_count in range(max_retries)` up to
\* `failed_ids = []`; data_queue is a new Queue, which orphans what a task
\* puts on the old one from here on
RetrySubmit ==
  /\ fpc = "retry"
  /\ fpc' = "retry_wait"
  /\ worker' = [id \in DOMAIN worker |->
                  IF id \in Items(retry_ids(failed_ids, data_ids))
                  THEN "queued" ELSE worker[id]]
  /\ failed_ids' = <<>>
  /\ data_queue' = <<>>
  /\ UNCHANGED <<parse_vars, helper_vars, loop_vars, data_ids, requests,
                 failed_queue, info, retry_results, retry_count>>

\* retry_failed_info: the rest of the turn, from the end of the with block to
\* `if not failed_ids: break` and the end of the range
RetryCollect ==
  /\ fpc = "retry_wait"
  /\ round_over(worker)
  /\ retry_results' = retry_results \o data_queue
  /\ failed_ids' = failed_ids \o failed_queue
  /\ data_queue' = <<>>
  /\ failed_queue' = <<>>
  /\ retry_count' = retry_count + 1
  /\ fpc' = IF failed_ids \o failed_queue = <<>> \/ retry_count + 1 >= max_retries
            THEN "return" ELSE "retry"
  /\ UNCHANGED <<parse_vars, helper_vars, loop_vars, data_ids, worker, requests, info>>

\* scrape_parallel: `info.extend(retry_results)` and `return info, failed_ids`
Return ==
  /\ fpc = "return"
  /\ fpc' = "returned"
  /\ info' = info \o retry_results
  /\ UNCHANGED <<parse_vars, helper_vars, loop_vars, data_ids, worker, requests,
                 data_queue, failed_queue, failed_ids, retry_results, retry_count>>

NextFetch ==
  Submit \/ FetchRequest \/ FetchPut \/ Collect \/ RetrySubmit \/ RetryCollect \/ Return

SpecFetch == InitFetch /\ [][NextFetch]_vars

\* ------------------------------------------------------------ the loops
\* The loops of the two parsers, a turn at a time: the `while changed and
\* words` loop of clean_city, the `while c and c != prev` loop of
\* cleanup_city, the `for i in range(i, -1, -1)` walks of
\* _city_from_left_segment and of step 3 of parse_city_country, and the
\* `for w in reversed(words)` scan of extract_tail_location.  event_name is
\* the text the function of the loop is called with.  A turn is the test of
\* the loop and, when it holds, the body; loop.at is "returned" once the loop
\* has been left, by its test, a break or a return.

LoopNames == { "clean_city", "cleanup_city", "left_walk", "year_walk", "tail_scan" }

LoopTexts ==
  { <<"I","F","S","C"," ","Y","o","u","t","h"," ","P","a","r","i","s"," ","J","u","n","i","o","r"," ","S","e","n","i","o","r">>, <<"I","n","t","e","r","n","a","t","i","o","n","a","l"," ","Y","o","u","t","h"," ","P","a","r","i","s"," ","S","e","n","i","o","r"," ","D","a","y","s">>,
    <<"M","a","r","s","e","i","l","l","e"," ","I","n","t","e","r","n","a","t","i","o","n","a","l"," ","Y","o","u","t","h">>, <<"O","p","e","n"," ","Y","o","u","t","h"," ","M","a","r","s","e","i","l","l","e">>, <<"Y","o","u","t","h"," ","D","a","y","s">>,
    <<"C","u","p",","," ","P","a","r","i","s",","," ","N","S","W">>, <<"C","u","p"," ","-"," ",","," ","P","a","r","i","s"," ",",">>, <<"C","u","p",","," ","P","a","r","i","s",","," ","F","r","a","n","c","e">>,
    <<"C","u","p"," ","R","i","o"," ","d","e"," ","J","a","n","e","i","r","o">>, <<"C","u","p"," ","o","n","e"," ","t","w","o"," ","t","h","r","e","e"," ","f","o","u","r"," ","f","i","v","e">>, <<"P","a","r","i","s">>, <<>> }

\* What a turn reads of a word or a chunk is worked out when the loop is
\* entered and kept beside the locals: a test of the body reads nothing but
\* the word or the chunk it is about.

\* the words the edge-word loop of clean_city starts from: c.split() of what
\* the statements before it left
EdgeWordsOf(text) == Call("SplitWs", <<Call("clean_stmts", <<1, 14, text>>)>>)

\* the str the edge-noise loop of cleanup_city starts from
EdgeTextOf(city) ==
  LET c0 == Call("StripQuoted", <<Call("NormWs", <<city>>)>>)
      m == Call("Search", <<Call("CITTA_DI_RE_v1", <<>>), c0>>)
  IN IF m.ok THEN Call("StripQuoted", <<Group(c0, m, 1)>>) ELSE c0

\* cleanup_city: m = EDGE_RE.match(c) and what c is assigned when m is not
\* None; None when it is
EdgeStep(c) ==
  LET m == Call("MatchStart", <<Call("EDGE_RE", <<>>), c>>)
      left == IF m.g[1] = NoSpan THEN <<>> ELSE Group(c, m, 1)
      right == IF m.g[2] = NoSpan THEN <<>> ELSE Group(c, m, 2)
  IN IF ~m.ok THEN None ELSE Call("StripQuoted", <<IF left # <<>> THEN left ELSE right>>)

\* the runs of words of c, which the groups of EDGE_RE are among
WordRuns(c) ==
  LET ws == Call("SplitWs", <<c>>)
  IN { Call("JoinSp", <<SubSeq(ws, a, b)>>) : a \in 1..Len(ws), b \in 0..Len(ws) }

\* the locals of loop f when it is entered
LoopStart(f, text) ==
  CASE f = "clean_city" ->
         LET words == EdgeWordsOf(text)
         IN [fn |-> f, at |-> "run", words |-> words, changed |-> TRUE,
             noise |-> [k \in 1..Len(words) |-> Call("IsEdgeNoise", <<words[k]>>)]]
    [] f = "cleanup_city" ->
         LET c == EdgeTextOf(text)
         IN [fn |-> f, at |-> "run", c |-> c, prev |-> None,
             edge |-> [x \in WordRuns(c) |-> EdgeStep(x)]]
    [] f = "left_walk" ->
         LET matches == Call("FindIter", <<Call("SEP_RE", <<>>), text>>)
             chunks == [k \in 1..Len(matches) |-> Call("Chunk", <<text, matches[k].e, Len(text)>>)]
         IN [fn |-> f, at |-> "run", i |-> Len(matches) - 1, chunk |-> chunks,
             prev |-> [k \in 1..Len(matches) |->
                         IF k = 1 THEN <<>>
                         ELSE Call("Chunk", <<text, matches[k - 1].e, matches[k].s>>)],
             region |-> [k \in 1..Len(matches) |-> Call("FullMatch", <<Call("REGION_RE", <<>>), chunks[k]>>)]]
    [] f = "year_walk" ->
         LET matches == Call("FindIter", <<Call("SEP_RE", <<>>), text>>)
         IN [fn |-> f, at |-> "run", i |-> Len(matches) - 1,
             after |-> [k \in 1..Len(matches) |-> Call("Chunk", <<text, matches[k].e, Len(text)>>)]]
    [] f = "tail_scan" ->
         LET words == Call("SplitWs", <<text>>)
             cleans == [k \in 1..Len(words) |-> Call("SubEmpty", <<Call("EDGE_NONWORD_RE", <<>>), words[k]>>)]
         IN [fn |-> f, at |-> "run", i |-> Len(words), tail |-> <<>>, w_clean |-> cleans,
             year |-> [k \in 1..Len(words) |-> Call("FullMatch", <<Call("YEAR_WORD_RE", <<>>), Call("Lower", <<cleans[k]>>)>>)]]

\* the loop has been left
Left(l) == [l EXCEPT !.at = "returned"]

\* a turn of the edge-word loop that drops no word
clean_city_turn_keeping(l) ==
  IF ~(l.changed /\ l.words # <<>>) THEN Left(l)
  ELSE IF l.noise[1] \/ l.noise[Len(l.noise)] THEN [l EXCEPT !.changed = TRUE]
  ELSE [l EXCEPT !.changed = FALSE]

\* clean_city: a turn of `while changed and words:`
clean_city_turn(l) ==
  IF ~(l.changed /\ l.words # <<>>) THEN Left(l)
  ELSE IF l.noise[1]
       THEN [l EXCEPT !.words = Tail(l.words), !.noise = Tail(l.noise), !.changed = TRUE]
  ELSE IF l.noise[Len(l.noise)]
       THEN [l EXCEPT !.words = SubSeq(l.words, 1, Len(l.words) - 1),
                      !.noise = SubSeq(l.noise, 1, Len(l.noise) - 1), !.changed = TRUE]
  ELSE [l EXCEPT !.changed = FALSE]

\* cleanup_city: a turn of `while c and c != prev:`
cleanup_city_turn(l) ==
  IF l.c = <<>> \/ l.c = l.prev THEN Left(l)
  ELSE IF l.edge[l.c] = None THEN Left([l EXCEPT !.prev = l.c])
  ELSE [l EXCEPT !.prev = l.c, !.c = l.edge[l.c]]

\* _city_from_left_segment: a turn of `for i in range(i, -1, -1):`, which
\* goes on to the separator before when the chunk is empty, or is a venue or
\* a region with nothing before it
left_walk_turn(l) ==
  IF l.i < 0 THEN Left(l)
  ELSE IF l.chunk[l.i + 1] = <<>> THEN [l EXCEPT !.i = l.i - 1]
  ELSE IF Call("Lower", <<l.chunk[l.i + 1]>>) \in Call("VENUE_CHUNKS", <<>>) /\ l.i - 1 >= 0
       THEN (IF l.prev[l.i + 1] # <<>> THEN Left(l) ELSE [l EXCEPT !.i = l.i - 1])
  ELSE IF l.region[l.i + 1] /\ l.chunk[l.i + 1] \in Call("REGION_ABBREV", <<>>) /\ l.i - 1 >= 0
       THEN (IF l.prev[l.i + 1] # <<>> THEN Left(l) ELSE [l EXCEPT !.i = l.i - 1])
  ELSE Left(l)

\* parse_city_country, step 3: a turn of `for i in range(len(matches) - 1,
\* -1, -1):`, which goes on only `if not after`
year_walk_turn(l) ==
  IF l.i < 0 THEN Left(l)
  ELSE IF l.after[l.i + 1] = <<>> THEN [l EXCEPT !.i = l.i - 1]
  ELSE Left(l)

\* extract_tail_location: a turn of `for w in reversed(words):`, l.i the
\* words still to come
tail_scan_turn(l) ==
  IF l.i = 0 THEN Left(l)
  ELSE IF l.w_clean[l.i] = <<>> THEN [l EXCEPT !.i = l.i - 1]
  ELSE IF Call("Lower", <<l.w_clean[l.i]>>) \in Call("STOPWORDS", <<>>) THEN [l EXCEPT !.i = l.i - 1]
  ELSE IF Call("Lower", <<l.w_clean[l.i]>>) \in Call("KEYWORDS_WORDS", <<>>) THEN Left(l)
  ELSE IF l.year[l.i] THEN [l EXCEPT !.i = l.i - 1]
  ELSE IF Len(l.tail) + 1 >= TAIL_MAX
       THEN Left([l EXCEPT !.tail = Append(l.tail, l.w_clean[l.i])])
  ELSE [l EXCEPT !.i = l.i - 1, !.tail = Append(l.tail, l.w_clean[l.i])]

InitLoops ==
  /\ event_name \in LoopTexts
  /\ InitCommon
  /\ DriverIdle
  /\ HelperIdle
  /\ FetchIdle
  /\ LoopIdle

\* the function of a loop is called and reaches the loop
EnterLoop ==
  /\ loop.fn = "none"
  /\ \E f \in LoopNames : loop' = LoopStart(f, event_name)
  /\ UNCHANGED <<parse_vars, helper_vars, fetch_vars>>

\* the thread that runs loop f is at the loop
Running(f) == loop.fn = f /\ loop.at = "run"

CleanCityTurn ==
  /\ Running("clean_city")
  /\ loop' = clean_city_turn(loop)
  /\ UNCHANGED <<parse_vars, helper_vars, fetch_vars>>

CleanupCityTurn ==
  /\ Running("cleanup_city")
  /\ loop' = cleanup_city_turn(loop)
  /\ UNCHANGED <<parse_vars, helper_vars, fetch_vars>>

LeftWalkTurn ==
  /\ Running("left_walk")
  /\ loop' = left_walk_turn(loop)
  /\ UNCHANGED <<parse_vars, helper_vars, fetch_vars>>

YearWalkTurn ==
  /\ Running("year_walk")
  /\ loop' = year_walk_turn(loop)
  /\ UNCHANGED <<parse_vars, helper_vars, fetch_vars>>

TailScanTurn ==
  /\ Running("tail_scan")
  /\ loop' = tail_scan_turn(loop)
  /\ UNCHANGED <<parse_vars, helper_vars, fetch_vars>>

\* a turn of the loop that runs
LoopTurn == CleanCityTurn \/ CleanupCityTurn \/ LeftWalkTurn \/ YearWalkTurn \/ TailScanTurn

NextLoops == EnterLoop \/ LoopTurn

\* a thread that is in a loop goes on running it: a turn that can be taken
\* is taken in the end
SpecLoops == InitLoops /\ [][NextLoops]_vars /\ WF_vars(LoopTurn)

\* ======================================================================
\* Properties of the parsers
\* ======================================================================

\* the name as the parsers read it
Normalized == Call("NormWs", <<event_name>>)
Parsed == call \in {"v2", "v1"}

\* the characters of a str
Chars(s) == { s[i] : i \in 1..Len(s) }

\* the codes _is_known_iso3 knows: the registry's, or the allow-list when the
\* registry is not there
RecognizedISO3 ==
  IF pycountry THEN { Call("PycountryCountries", <<>>)[k].alpha_3 : k \in 1..Len(Call("PycountryCountries", <<>>)) }
  ELSE Call("FALLBACK_ISO3_CODES", <<>>)

\* some parenthesised text of s is the name of a country
HasCountryNameInParens(s) ==
  \E m \in { Call("MatchAt", <<Call("PAREN_CONTENT_RE", <<>>), s, a>>) : a \in 0..Len(s) } :
     m.ok /\ Call("country_name_to_iso3_safe", <<Group(s, m, 1)>>) # None

\* s holds none of the anchors: no "(AAA)", no "AAA)", no country name in
\* parentheses, no year
NoAnchors(s) ==
  /\ ~Call("Search", <<Call("COUNTRY_ISO3_PAREN_RE", <<>>), s>>).ok
  /\ ~Call("Search", <<Call("COUNTRY_ISO3_RPAREN_RE", <<>>), s>>).ok
  /\ ~HasCountryNameInParens(s)
  /\ ~Call("Search", <<Call("YEAR_RE", <<>>), s>>).ok

\* a word of the text is a keyword word, the words extract_tail_location
\* stops at
HasStopKeyword(text) ==
  \E k \in 1..Len(Call("SplitWs", <<text>>)) :
     Call("Lower", <<Call("SubEmpty", <<Call("EDGE_NONWORD_RE", <<>>), Call("SplitWs", <<text>>)[k]>>)>>) \in Call("KEYWORDS_WORDS", <<>>)

\* the country anchor of the name under event_location_v2, and the text
\* before it
AnchorV2 == Call("CountryAnchor", <<Normalized>>)
HasAnchorV2 == AnchorV2.kind \in {"iso", "rparen", "name"}
BeforeAnchorV2 == Call("RStrip", <<Slice(Normalized, 0, AnchorV2.s), Space>>)
\* the same under event_location
AnchorV1 == Call("last_match_v1", <<Call("COUNTRY_RE", <<>>), Normalized>>)
BeforeAnchorV1 == Call("RStrip", <<Slice(Normalized, 0, AnchorV1.s), Space>>)

BrianconName == <<"I","F","S","C"," ","C","l","i","m","b","i","n","g"," ","W","o","r","l","d"," ","C","u","p"," ","(","B",")"," ","-"," ","B","r","i","a","n","ç","o","n"," ","(","F","R","A",")"," ","2","0","2","3">>
MunichName == <<"B","o","u","l","d","e","r"," ","M","a","s","t","e","r","s"," ","M","u","n","i","c","h">>
BelgradeName == <<"3","."," ","B","e","l","g","r","a","d","e"," ","O","p","e","n"," ","(","S","R","B",")">>
ImstName == <<"Y","o","u","t","h"," ","C","o","l","o","r"," ","C","l","i","m","b","i","n","g"," ","F","e","s","t","i","v","a","l"," ","I","m","s","t">>

\* ---------------------------------------------------------------- C1
\* C1: a name with no "(AAA)" group, no "AAA)" token, no country name in
\* parentheses and no 19xx/20xx year is parsed to (None, None), by both
\* parsers; "Boulder Masters Munich" is such a name.
C1_Conservatism ==
  /\ (Parsed /\ NoAnchors(Normalized)) => ret = NoResult
  /\ (Parsed /\ event_name = MunichName) => ret = NoResult

\* a parser has returned on "Boulder Masters Munich", which has no anchor
C1_Witness ==
  /\ call = "v2"
  /\ event_name = MunichName
  /\ NoAnchors(Normalized)
  /\ ret = NoResult

\* ---------------------------------------------------------------- C2
\* C2 as stated: when the text before the country anchor, as the name gives
\* it, has no comma/dash separator and no stop keyword, the city is None and
\* the country is the anchor's code.
C2_NoGuessOnNameText ==
  /\ (call = "v2" /\ HasAnchorV2
        /\ ~Call("Search", <<Call("SEP_RE", <<>>), BeforeAnchorV2>>).ok /\ ~HasStopKeyword(BeforeAnchorV2))
       => (ret.city = None /\ ret.country = AnchorV2.country)
  /\ (call = "v1" /\ AnchorV1.ok
        /\ ~Call("Search", <<Call("SEP_RE_v1", <<>>), BeforeAnchorV1>>).ok /\ ~HasStopKeyword(BeforeAnchorV1))
       => (ret.city = None /\ ret.country = Group(Normalized, AnchorV1, 1))

\* C2, amended: when the text before the country anchor has no comma/dash
\* separator once event_location_v2 has taken the discipline blocks out of
\* it (event_location takes nothing out), the city is None and the country is
\* the anchor's code, whether or not the text holds a stop keyword.
C2_NoGuessWithoutSeparator ==
  /\ (call = "v2" /\ HasAnchorV2 /\ ~Call("Search", <<Call("SEP_RE", <<>>), Call("LeftOf", <<Normalized, AnchorV2.s>>)>>).ok)
       => (ret.city = None /\ ret.country = AnchorV2.country)
  /\ (call = "v1" /\ AnchorV1.ok /\ ~Call("Search", <<Call("SEP_RE_v1", <<>>), BeforeAnchorV1>>).ok)
       => (ret.city = None /\ ret.country = Group(Normalized, AnchorV1, 1))

\* "Paris (FRA)" has been parsed: an anchor, no separator before it
C2_Witness ==
  /\ call = "v2"
  /\ event_name = <<"P","a","r","i","s"," ","(","F","R","A",")">>
  /\ HasAnchorV2
  /\ ~Call("Search", <<Call("SEP_RE", <<>>), Call("LeftOf", <<Normalized, AnchorV2.s>>)>>).ok
  /\ ret = Result(None, <<"F","R","A">>)

\* ---------------------------------------------------------------- C3
\* C3 as stated: a country event_location_v2 returns is three upper-case
\* letters and a code of the recognized set.
C3_CountryRecognized ==
  (call = "v2" /\ ret.country # None)
    => (Call("FullMatch", <<Call("ISO3_RE", <<>>), ret.country>>) /\ ret.country \in RecognizedISO3)

\* C3, amended: a country event_location_v2 returns is three upper-case
\* letters; it is a code of the recognized set unless it is the content of
\* the last well-formed "(AAA)" group of the name, which is taken as it is.
C3_CountryFormat ==
  (call = "v2" /\ ret.country # None)
    => /\ Call("FullMatch", <<Call("ISO3_RE", <<>>), ret.country>>)
       /\ \/ ret.country \in RecognizedISO3
          \/ /\ Call("last_match", <<Call("COUNTRY_ISO3_PAREN_RE", <<>>), Normalized>>).ok
             /\ ret.country = Group(Normalized, Call("last_match", <<Call("COUNTRY_ISO3_PAREN_RE", <<>>), Normalized>>), 1)

\* a country that came through _is_known_iso3: the "CHN)" of "Paris CHN)"
C3_Witness ==
  /\ call = "v2"
  /\ event_name = <<"P","a","r","i","s"," ","C","H","N",")">>
  /\ ~Call("last_match", <<Call("COUNTRY_ISO3_PAREN_RE", <<>>), Normalized>>).ok
  /\ ret.country = <<"C","H","N">>

\* ---------------------------------------------------------------- C4
\* C4: a city either parser returns is not empty, has no parenthesis, has a
\* letter, and is not a bare ISO3 code.
C4_CityValid ==
  (Parsed /\ ret.city # None)
    => /\ ret.city # <<>>
       /\ "(" \notin Chars(ret.city)
       /\ ")" \notin Chars(ret.city)
       /\ Call("HasAlpha", <<ret.city>>)
       /\ ~(Call("FullMatch", <<Call("ISO3_RE", <<>>), ret.city>>) /\ ret.city \in RecognizedISO3)

\* event_location_v2 has returned the city "5" for "Cup - of 5 (FRA)"
C4_Witness ==
  /\ call = "v2"
  /\ event_name = <<"C","u","p"," ","-"," ","o","f"," ","5"," ","(","F","R","A",")">>
  /\ ret = Result(<<"5">>, <<"F","R","A">>)

\* ---------------------------------------------------------------- C5
\* C5: clean_city applied to what clean_city returned gives the same value.
C5_CleanIdempotent ==
  call = "clean2" => cleaned[2] = cleaned[1]

\* clean_city has been applied twice to "3. 4. Paris"
C5_Witness ==
  /\ call = "clean2"
  /\ event_name = <<"3","."," ","4","."," ","P","a","r","i","s">>
  /\ cleaned = << <<"4","."," ","P","a","r","i","s">>, <<"P","a","r","i","s">> >>

C7_NeverRaises ==
  /\ Parsed => ret.raised = FALSE
  /\ (call = "v2" /\ event_name = <<>>) => ret = NoResult
  /\ (call = "v2" /\ ~pycountry /\ HasAnchorV2 /\ AnchorV2.kind = "rparen")
       => ret.country \in Call("FALLBACK_ISO3_CODES", <<>>)

\* the registry has raised LookupError on "Paris" inside a call that returned
C7_Witness ==
  /\ pycountry
  /\ call = "v2"
  /\ event_name = <<"C","u","p",","," ","L","y","o","n"," ","(","P","a","r","i","s",")">>
  /\ Call("pycountry_countries_lookup", <<<<"P","a","r","i","s">>>>) = LookupError
  /\ ret = NoResult

\* ---------------------------------------------------------------- C8
\* C8: "IFSC Climbing World Cup (B) - Briançon (FRA) 2023" is parsed to
\* ("Briançon", "FRA") by both parsers.
C8_Briancon ==
  (Parsed /\ event_name = BrianconName) => ret = Result(<<"B","r","i","a","n","ç","o","n">>, <<"F","R","A">>)

\* event_location_v2 has parsed the name
C8_Witness ==
  /\ call = "v2"
  /\ event_name = BrianconName
  /\ ret.city = <<"B","r","i","a","n","ç","o","n">>

\* ---------------------------------------------------------------- C9
\* C9 as stated: "3. Belgrade Open (SRB)" is parsed to ("Belgrade", "SRB").
C9_BelgradeCity ==
  (call = "v2" /\ event_name = BelgradeName) => ret = Result(<<"B","e","l","g","r","a","d","e">>, <<"S","R","B">>)

\* C9, amended: "3. Belgrade Open (SRB)" is parsed to (None, "SRB") by both
\* parsers, no separator standing before the anchor; the ordinal and the
\* keyword are stripped by clean_city, which makes "Belgrade" of
\* "3. Belgrade Open" when it is handed that text.
C9_BelgradeNoCity ==
  /\ (Parsed /\ event_name = BelgradeName) => ret = Result(None, <<"S","R","B">>)
  /\ (call \in {"clean", "clean2"} /\ event_name = <<"3","."," ","B","e","l","g","r","a","d","e"," ","O","p","e","n">>)
       => cleaned[1] = <<"B","e","l","g","r","a","d","e">>

\* event_location_v2 has parsed "3. Belgrade Open (SRB)"
C9_Witness ==
  /\ call = "v2"
  /\ event_name = BelgradeName
  /\ ret.city = None
  /\ ret.country = <<"S","R","B">>

\* ---------------------------------------------------------------- C10
\* C10 as stated: "Youth Color Climbing Festival Imst" is parsed to the city
\* "Imst".
C10_ImstCity ==
  (call = "v2" /\ event_name = ImstName) => ret.city = <<"I","m","s","t">>

\* C10, amended: "Youth Color Climbing Festival Imst", which has neither a
\* country nor a year, is parsed to (None, None) by both parsers;
\* extract_tail_location would make "Imst" of it, and is called only on a
\* name that has a year.
C10_ImstNoCity ==
  (Parsed /\ event_name = ImstName)
    => /\ ret = NoResult
       /\ Call("extract_tail_location", <<Normalized>>) = <<"I","m","s","t">>

\* event_location_v2 has parsed "Youth Color Climbing Festival Imst"
C10_Witness ==
  /\ call = "v2"
  /\ event_name = ImstName
  /\ ~Call("Search", <<Call("YEAR_RE", <<>>), Normalized>>).ok
  /\ ret.city = None

\* the largest of a set of offsets
MaxOf(S) == CHOOSE x \in S : \A y \in S : y <= x

\* the offsets of s at which pattern r matches
StartsOf(r, s) == { a \in 0..Len(s) : Call("MatchAt", <<r, s, a>>).ok }

\* group 1 of the rightmost match of r in s
RightmostGroup(r, s) == Group(s, Call("MatchAt", <<r, s, MaxOf(StartsOf(r, s))>>), 1)

\* ---------------------------------------------------------------- C11
\* C11: a city event_location_v2 returns holds none of the blacklisted
\* phrases "melloblocco", "the north face", "north face", in any case, also
\* after postprocess_city; "Melloblocco 2015" is parsed to (None, None).
C11_NoBlacklistedCity ==
  /\ (call = "v2" /\ ret.city # None)
       => \A k \in 1..Len(Call("BLACKLIST_CITY_SUBSTR", <<>>)) :
             ~Call("Contains", <<Call("Lower", <<ret.city>>), Call("BLACKLIST_CITY_SUBSTR", <<>>)[k]>>)
  /\ (call = "v2" /\ event_name = <<"M","e","l","l","o","b","l","o","c","c","o"," ","2","0","1","5">>) => ret = NoResult

\* event_location_v2 has returned the city "North Face", which
\* postprocess_city made of "North hips Face hips"
C11_Witness ==
  /\ call = "v2"
  /\ event_name = <<"n","a","m","B","a"," ","H","I","P","S"," ","-"," ","N","o","r","t","h"," ","h","i","p","s"," ","F","a","c","e"," ","h","i","p","s"," ","(","F","R","A",")">>
  /\ ret = Result(<<"N","o","r","t","h"," ","F","a","c","e">>, <<"F","R","A">>)

\* ---------------------------------------------------------------- C13
\* C13: when the name holds "(AAA)" groups of three upper-case letters, the
\* country event_location_v2 returns is the three letters of the rightmost
\* of them, whether or not they are a code any registry knows, and whatever
\* "AAA)" token, country name in parentheses or year stands elsewhere.
C13_RightmostIsoParen ==
  (call = "v2" /\ StartsOf(Call("COUNTRY_ISO3_PAREN_RE", <<>>), Normalized) # {})
    => ret.country = RightmostGroup(Call("COUNTRY_ISO3_PAREN_RE", <<>>), Normalized)

\* "Paris (FRA) (XYZ)" has been parsed: two groups, the rightmost one a code
\* no registry knows
C13_Witness ==
  /\ call = "v2"
  /\ event_name = <<"P","a","r","i","s"," ","(","F","R","A",")"," ","(","X","Y","Z",")">>
  /\ Cardinality(StartsOf(Call("COUNTRY_ISO3_PAREN_RE", <<>>), Normalized)) = 2
  /\ <<"X","Y","Z">> \notin RecognizedISO3
  /\ ret.country = <<"X","Y","Z">>

\* ---------------------------------------------------------------- C14
\* the offsets of the parenthesised texts of s that name a country
CountryNameStarts(s) ==
  { a \in StartsOf(Call("PAREN_CONTENT_RE", <<>>), s) :
      Call("country_name_to_iso3_safe", <<Group(s, Call("MatchAt", <<Call("PAREN_CONTENT_RE", <<>>), s, a>>), 1)>>)
        \notin {None, LookupError} }

CountryNameAnchor(s) ==
  IF Call("CountryAnchor", <<s>>).kind \in {"iso", "rparen"} THEN NoAnchorYet ELSE Call("CountryAnchor", <<s>>)

\* C15: in a name without a "(AAA)" group, the last "AAA)" token is the
\* country anchor when its letters are a code of the recognized set, and
\* only then: the country is the token's and the city comes from the text
\* before the token; when they are not, the token is dropped and the result
\* is what the country name in parentheses and the year give.
C15_MalformedAnchor ==
  (call = "v2" /\ StartsOf(Call("COUNTRY_ISO3_PAREN_RE", <<>>), Normalized) = {}
     /\ StartsOf(Call("COUNTRY_ISO3_RPAREN_RE", <<>>), Normalized) # {})
    => IF RightmostGroup(Call("COUNTRY_ISO3_RPAREN_RE", <<>>), Normalized) \in RecognizedISO3
       THEN /\ AnchorV2.kind = "rparen"
            /\ AnchorV2.s = MaxOf(StartsOf(Call("COUNTRY_ISO3_RPAREN_RE", <<>>), Normalized))
            /\ ret.country = RightmostGroup(Call("COUNTRY_ISO3_RPAREN_RE", <<>>), Normalized)
       ELSE /\ AnchorV2.kind # "rparen"
            /\ ret = Call("CityExtraction", <<Normalized, CountryNameAnchor(Normalized)>>)

\* "Cup, Paris (France) XYZ)" has been parsed: "XYZ)" is dropped and
\* "(France)" anchors the name
C15_Witness ==
  /\ call = "v2"
  /\ event_name = <<"C","u","p",","," ","P","a","r","i","s"," ","(","F","r","a","n","c","e",")"," ","X","Y","Z",")">>
  /\ RightmostGroup(Call("COUNTRY_ISO3_RPAREN_RE", <<>>), Normalized) = <<"X","Y","Z">>
  /\ ret = Result(<<"P","a","r","i","s">>, <<"F","R","A">>)

\* ------------------------------------------------- the text before an anchor
\* the text _city_from_left_segment is handed, and its separators
LeftText == Call("LeftOf", <<Normalized, AnchorV2.s>>)
Seps(left) == Call("FindIter", <<Call("SEP_RE", <<>>), left>>)
\* the text after the last separator of left
LastChunk(left) == Call("Chunk", <<left, Seps(left)[Len(Seps(left))].e, Len(left)>>)
\* the segment before the last separator of left: from the separator before
\* it, or from the start of left when there is none
PrevSegment(left) ==
  Call("Chunk", <<left,
        IF Len(Seps(left)) > 1 THEN Seps(left)[Len(Seps(left)) - 1].e ELSE 0,
        Seps(left)[Len(Seps(left))].s>>)

\* ---------------------------------------------------------------- C16
\* C16: when the text before a country anchor has a separator and the text
\* after its last separator is the venue token "Century Plaza", in any case,
\* _city_from_left_segment returns the segment before that separator, and
\* not the venue token.
C16_VenueBacktrack ==
  (call = "left" /\ Seps(LeftText) # <<>> /\ Call("Lower", <<LastChunk(LeftText)>>) \in Call("VENUE_CHUNKS", <<>>))
    => /\ city_raw = PrevSegment(LeftText)
       /\ Call("Lower", <<city_raw>>) \notin Call("VENUE_CHUNKS", <<>>)

\* _city_from_left_segment has returned "Century Plaza" for
\* "Shanghai, Century Plaza", the text before "(CHN)"
C16_Witness ==
  /\ call = "left"
  /\ event_name = <<"S","h","a","n","g","h","a","i",","," ","C","e","n","t","u","r","y"," ","P","l","a","z","a"," ","(","C","H","N",")">>
  /\ LeftText = <<"S","h","a","n","g","h","a","i",","," ","C","e","n","t","u","r","y"," ","P","l","a","z","a">>
  /\ Len(Seps(LeftText)) = 1
  /\ city_raw = <<"C","e","n","t","u","r","y"," ","P","l","a","z","a">>

WordKind(w) ==
  IF Call("SubEmpty", <<Call("EDGE_NONWORD_RE", <<>>), w>>) = <<>> THEN "skip"
  ELSE IF Call("Lower", <<Call("SubEmpty", <<Call("EDGE_NONWORD_RE", <<>>), w>>)>>) \in Call("STOPWORDS", <<>>) THEN "skip"
  ELSE IF Call("Lower", <<Call("SubEmpty", <<Call("EDGE_NONWORD_RE", <<>>), w>>)>>) \in Call("KEYWORDS_WORDS", <<>>) THEN "keyword"
  ELSE IF Call("FullMatch", <<Call("YEAR_WORD_RE", <<>>), Call("Lower", <<Call("SubEmpty", <<Call("EDGE_NONWORD_RE", <<>>), w>>)>>)>>) THEN "skip"
  ELSE "kept"

\* the place of the last keyword word of words, 0 when there is none
LastKeyword(words) ==
  LET ks == { k \in 1..Len(words) : WordKind(words[k]) = "keyword" }
  IN IF ks = {} THEN 0 ELSE MaxOf(ks)

\* the places of the words after the last keyword word that are kept
KeptAfterKeyword(words) ==
  { k \in (LastKeyword(words) + 1)..Len(words) : WordKind(words[k]) = "kept" }

\* the scan of text from the right stops at a keyword word: it meets one
\* before it has kept TAIL_MAX words
StopsAtKeyword(text) ==
  /\ LastKeyword(Call("SplitWs", <<text>>)) > 0
  /\ Cardinality(KeptAfterKeyword(Call("SplitWs", <<text>>))) < TAIL_MAX

\* the members of a set of places, in rising order
RECURSIVE Ascending(_)
Ascending(S) ==
  IF S = {} THEN <<>> ELSE Append(Ascending(S \ {MaxOf(S)}), MaxOf(S))

\* the last n items of seq, all of them when it has fewer
LastItems(seq, n) ==
  SubSeq(seq, IF Len(seq) > n THEN Len(seq) - n + 1 ELSE 1, Len(seq))

\* the words of text the scan keeps, in the order of the text
KeptWords(text) ==
  LET at == LastItems(Ascending(KeptAfterKeyword(Call("SplitWs", <<text>>))), TAIL_MAX)
  IN [i \in 1..Len(at) |-> Call("SubEmpty", <<Call("EDGE_NONWORD_RE", <<>>), Call("SplitWs", <<text>>)[at[i]]>>)]

\* C18 as stated: extract_tail_location gives no chunk when its scan from
\* the right does not stop at a keyword word, that is when it reaches the
\* start of the prefix or keeps its fourth word without having met one.
C18_NoTailWithoutKeyword ==
  (call = "tail" /\ ~StopsAtKeyword(event_name)) => tail = None

\* C18, amended: extract_tail_location gives the words its scan kept, at
\* most four, whatever ended the scan: a keyword word, the start of the
\* prefix or the fourth word kept; it gives no chunk only when the scan kept
\* no word.
C18_TailIsKeptWords ==
  call = "tail"
    => IF KeptWords(event_name) = <<>> THEN tail = None
       ELSE tail = Call("JoinSp", <<KeptWords(event_name)>>)

\* extract_tail_location has returned "two three four five" for a prefix of
\* six words it met no keyword word in before the fourth it kept
C18_Witness ==
  /\ call = "tail"
  /\ event_name = <<"C","u","p"," ","o","n","e"," ","t","w","o"," ","t","h","r","e","e"," ","f","o","u","r"," ","f","i","v","e">>
  /\ ~StopsAtKeyword(event_name)
  /\ tail = <<"t","w","o"," ","t","h","r","e","e"," ","f","o","u","r"," ","f","i","v","e">>

\* ---------------------------------------------------------------- C19
\* the text before the last year of the name, as step 3) reads it
YearLeft == Call("LeftOf", <<Normalized, MaxOf(StartsOf(Call("YEAR_RE", <<>>), Normalized))>>)

\* the code of the country that chunk t is: t when it is three upper-case
\* letters of the recognized set, the code of the country it names otherwise
CountryOfChunk(t) ==
  IF Call("FullMatch", <<Call("ISO3_RE", <<>>), t>>) THEN (IF t \in RecognizedISO3 THEN t ELSE None)
  ELSE Call("country_name_to_iso3_safe", <<t>>)

\* the name has no country anchor, has a year, and the text before its last
\* year has a separator with a chunk after the last of them
YearAnchored ==
  /\ AnchorV2.kind = "none"
  /\ StartsOf(Call("YEAR_RE", <<>>), Normalized) # {}
  /\ Seps(YearLeft) # <<>>
  /\ LastChunk(YearLeft) # <<>>

\* C19: when the name has no country anchor, the text before its last year
\* has a separator, and the chunk after the last separator is a country, by
\* its code or by its name, event_location_v2 returns that country, and the
\* city it makes of the segment before the chunk, or of the tail of the text
\* before the separator when no separator stands before it: the city is
\* made of the text before the country token, never of the token.
C19_CountryBeforeYear ==
  (call = "v2" /\ YearAnchored /\ CountryOfChunk(LastChunk(YearLeft)) \notin {None, LookupError})
    => /\ ret.country = CountryOfChunk(LastChunk(YearLeft))
       /\ ret.city =
            Call("finalize_city", <<
              IF Len(Seps(YearLeft)) > 1 THEN PrevSegment(YearLeft)
              ELSE IF Call("extract_tail_location", <<Call("StripWs", <<Slice(YearLeft, 0, Seps(YearLeft)[1].s)>>)>>) = None
                   THEN <<>>
                   ELSE Call("extract_tail_location", <<Call("StripWs", <<Slice(YearLeft, 0, Seps(YearLeft)[1].s)>>)>>),
              ret.country, Normalized>>)

\* "IFSC Asian Cup Hong Kong, CHN 2012" has been parsed: "CHN" stands after
\* the only separator, and the city is the tail of the text before it
C19_Witness ==
  /\ call = "v2"
  /\ event_name = <<"I","F","S","C"," ","A","s","i","a","n"," ","C","u","p"," ","H","o","n","g"," ","K","o","n","g",","," ","C","H","N"," ","2","0","1","2">>
  /\ YearAnchored
  /\ Len(Seps(YearLeft)) = 1
  /\ LastChunk(YearLeft) = <<"C","H","N">>
  /\ ret = Result(<<"H","o","n","g"," ","K","o","n","g">>, <<"C","H","N">>)

\* ---------------------------------------------------------------- C20
\* C20: before a country anchor and before a year alike, a last chunk of two
\* or three upper-case letters is left for the segment before it only when
\* it is in REGION_ABBREV; a chunk of upper-case letters outside the list is
\* kept as the city candidate.
C20_RegionAllowList ==
  /\ (call = "left" /\ Seps(LeftText) # <<>>
        /\ Call("FullMatch", <<Call("REGION_RE", <<>>), LastChunk(LeftText)>>)
        /\ LastChunk(LeftText) \notin Call("REGION_ABBREV", <<>>))
       => city_raw = LastChunk(LeftText)
  /\ (call = "v2" /\ YearAnchored
        /\ Call("FullMatch", <<Call("REGION_RE", <<>>), LastChunk(YearLeft)>>)
        /\ LastChunk(YearLeft) \notin Call("REGION_ABBREV", <<>>)
        /\ CountryOfChunk(LastChunk(YearLeft)) = None)
       => ret = Result(Call("finalize_city", <<LastChunk(YearLeft), None, Normalized>>), None)

\* "Cup, Paris, XY 2023" has been parsed: "XY" is not in REGION_ABBREV, and
\* the city is the segment before it
C20_Witness ==
  /\ call = "v2"
  /\ event_name = <<"C","u","p",","," ","P","a","r","i","s",","," ","X","Y"," ","2","0","2","3">>
  /\ YearAnchored
  /\ LastChunk(YearLeft) = <<"X","Y">>
  /\ <<"X","Y">> \notin Call("REGION_ABBREV", <<>>)
  /\ ret = Result(<<"P","a","r","i","s">>, None)

\* ---------------------------------------------------------------- C12
\* record k of the pass can be stored: Events has its row and its name is a
\* str
CanStore(k) ==
  /\ data_list[k].ifsc_id \in DOMAIN Events
  /\ data_list[k].name # None

\* the text of location before its first comma, the white space around
\* location taken off first
BeforeFirstComma(location) ==
  LET t == Call("StripWs", <<location>>)
      commas == { i \in 1..Len(t) : t[i] = "," }
  IN IF commas = {} THEN t
     ELSE SubSeq(t, 1, (CHOOSE i \in commas : \A j \in commas : i <= j) - 1)

NAMED_STRONG_WORDS ==
  { <<"r","e","p","u","b","l","i","c">>, <<"k","i","n","g","d","o","m">>, <<"u","n","i","t","e","d">>, <<"f","e","d","e","r","a","t","i","o","n">>, <<"e","m","i","r","a","t","e","s">>,
    <<"i","s","l","a","n","d","s">>, <<"c","a","l","e","d","o","n","i","a">> }
\* the words country_name_to_iso3_safe looks for
ALL_STRONG_WORDS ==
  NAMED_STRONG_WORDS \cup { <<"d","e","m","o","c","r","a","t","i","c">>, <<"p","e","o","p","l","e">>, <<"s","t","a","t","e">>, <<"s","t","a","t","e","s">> }

\* the token has no white space or full stop around it and is none of the
\* abbreviations the function spells out, so that it is looked up as it is;
\* and neither the USA rule, the override map nor the direct lookup
\* resolves it
Unresolved(token) ==
  /\ Call("Strip", <<Call("StripWs", <<token>>), {"."}>>) = token
  /\ Len(token) > 2
  /\ Call("Upper", <<token>>) \notin { <<"U","K">>, <<"U",".","K",".">>, <<"U","A","E">>, <<"U","S","A">> }
  /\ Call("OverrideGet", <<Call("Lower", <<token>>)>>) = None
  /\ Call("pycountry_lookup_safe", <<token>>) = None

\* a word of words is in token, in any case
HasWordOf(words, token) == \E w \in words : Call("Contains", <<Call("Lower", <<token>>), w>>)

\* C21 as stated: a token that the override map and the direct lookup do not
\* resolve, that has fewer than 12 characters and holds none of republic,
\* kingdom, united, federation, emirates, islands, caledonia resolves to
\* None: the fuzzy search is not asked.
C21_FuzzyGateNamedWords ==
  (call = "country" /\ Unresolved(event_name) /\ Len(event_name) < 12
     /\ ~HasWordOf(NAMED_STRONG_WORDS, event_name))
    => out = None

\* C21, amended: the words that open the fuzzy search are republic, kingdom,
\* united, federation, democratic, people, state, states, emirates,
\* caledonia, islands.  An unresolved token of fewer than 12 characters that
\* holds none of them resolves to None; an unresolved token that has 12
\* characters or holds one of them resolves to what the fuzzy search of the
\* registry gives, None when there is no registry or the search fails.
C21_FuzzyGateAllWords ==
  (call = "country" /\ Unresolved(event_name))
    => IF Len(event_name) < 12 /\ ~HasWordOf(ALL_STRONG_WORDS, event_name)
       THEN out = None
       ELSE out = IF pycountry
                     /\ Call("pycountry_countries_search_fuzzy", <<event_name>>) # LookupError
                  THEN Call("pycountry_countries_search_fuzzy", <<event_name>>)
                  ELSE None

\* "Hong" has been looked up with the registry there: the fuzzy search would
\* give HKG, and is not asked; "States" is given to it
C21_Witness ==
  /\ call = "country"
  /\ pycountry
  /\ event_name = <<"H","o","n","g">>
  /\ Unresolved(event_name)
  /\ Call("pycountry_countries_search_fuzzy", <<event_name>>) = <<"H","K","G">>
  /\ out = None

\* ---------------------------------------------------------------- C22
\* city ends with the name of a U.S. state after another word
EndsWithState(city) ==
  \E st \in Call("US_STATE_NAMES", <<>>) : Call("EndsWith", <<city, <<" ">> \o st>>)

\* C22: postprocess_city takes a trailing U.S. state name off only when
\* country is "USA", and a trailing "Province" only when country is "CHN";
\* with any other country, None too, a city that ends in a state name or in
\* "Province" keeps it.
C22_SuffixGated ==
  call = "post"
    => /\ (country # <<"U","S","A">> /\ EndsWithState(event_name))
            => \E st \in Call("US_STATE_NAMES", <<>>) :
                  Call("EndsWith", <<event_name, <<" ">> \o st>>) /\ Call("EndsWith", <<out, <<" ">> \o st>>)
       /\ (country = <<"U","S","A">> /\ EndsWithState(event_name))
            => Len(out) < Len(event_name)
       /\ (country # <<"C","H","N">> /\ Call("EndsWith", <<Call("Lower", <<event_name>>), <<" ","p","r","o","v","i","n","c","e">>>>))
            => Call("EndsWith", <<Call("Lower", <<out>>), <<" ","p","r","o","v","i","n","c","e">>>>)
       /\ (country = <<"C","H","N">> /\ Call("EndsWith", <<Call("Lower", <<event_name>>), <<" ","p","r","o","v","i","n","c","e">>>>))
            => ~Call("EndsWith", <<Call("Lower", <<out>>), <<" ","p","r","o","v","i","n","c","e">>>>)

\* postprocess_city has left "Denver Colorado" as it is for the country FRA
C22_Witness ==
  /\ call = "post"
  /\ country = <<"F","R","A">>
  /\ event_name = <<"D","e","n","v","e","r"," ","C","o","l","o","r","a","d","o">>
  /\ out = <<"D","e","n","v","e","r"," ","C","o","l","o","r","a","d","o">>

\* ---------------------------------------------------------------- C23
\* the chunk event_location takes for the city: the text after the last
\* separator before the "(AAA)" group
ChunkV1 == Call("StripWs", <<From(BeforeAnchorV1, Call("last_match_v1", <<Call("SEP_RE_v1", <<>>), BeforeAnchorV1>>).e)>>)

\* C23: when the chunk of a name with a country anchor and a separator is
\* the one word "Boulder", both parsers return the city "Boulder"; the word
\* is taken off only before another word, as in "Boulder Montpellier".
C23_BareBoulder ==
  /\ (call = "v2" /\ HasAnchorV2 /\ Seps(LeftText) # <<>>
        /\ LastChunk(LeftText) = <<"B","o","u","l","d","e","r">>)
       => ret.city = <<"B","o","u","l","d","e","r">>
  /\ (call = "v1" /\ AnchorV1.ok /\ Call("Search", <<Call("SEP_RE_v1", <<>>), BeforeAnchorV1>>).ok
        /\ ChunkV1 = <<"B","o","u","l","d","e","r">>)
       => ret.city = <<"B","o","u","l","d","e","r">>
  /\ (Parsed /\ event_name = <<"C","u","p",","," ","B","o","u","l","d","e","r"," ","M","o","n","t","p","e","l","l","i","e","r"," ","(","F","R","A",")">>)
       => ret.city = <<"M","o","n","t","p","e","l","l","i","e","r">>

\* event_location has parsed "Cup, Boulder (USA)" and returned no city
C23_Witness ==
  /\ call = "v1"
  /\ event_name = <<"C","u","p",","," ","B","o","u","l","d","e","r"," ","(","U","S","A",")">>
  /\ ChunkV1 = <<"B","o","u","l","d","e","r">>
  /\ ret = Result(None, <<"U","S","A">>)

\* ---------------------------------------------------------------- C24
\* C24: clean_city returns no city for a chunk that is a known ISO3 code and
\* nothing else; tidy_case does not rewrite such a chunk before it is
\* validated.
C24_BareCodeRejected ==
  /\ (call \in {"clean", "clean2"} /\ Call("FullMatch", <<Call("ISO3_RE", <<>>), event_name>>)
        /\ event_name \in RecognizedISO3)
       => cleaned[1] = None
  /\ (call = "clean" /\ Call("FullMatch", <<Call("ISO3_RE", <<>>), event_name>>))
       => Call("tidy_case", <<event_name>>) = event_name

\* clean_city has returned "Fra" for the chunk "FRA"
C24_Witness ==
  /\ call = "clean"
  /\ event_name = <<"F","R","A">>
  /\ event_name \in RecognizedISO3
  /\ cleaned = << <<"F","r","a">> >>

\* ---------------------------------------------------------------- C29
\* C29: with the country USA, postprocess_city takes a state name off only
\* after another word of the city: a city that is a state name of the table
\* and nothing else is returned as it is, and what is returned is not empty.
C29_StateNameKept ==
  (call = "post" /\ country = <<"U","S","A">>)
    => /\ out # None
       /\ out # <<>>
       /\ event_name \in Call("US_STATE_NAMES", <<>>) => out = event_name

\* postprocess_city has returned "West" for the city "West Virginia"
C29_Witness ==
  /\ call = "post"
  /\ country = <<"U","S","A">>
  /\ event_name = <<"W","e","s","t"," ","V","i","r","g","i","n","i","a">>
  /\ event_name \in Call("US_STATE_NAMES", <<>>)
  /\ out = <<"W","e","s","t">>

\* ---------------------------------------------------------------- C30
\* the last k words of text, the punctuation around each taken off, joined
\* by single spaces
LastCleanWords(text, k) ==
  Call("JoinSp", <<[i \in 1..k |->
            Call("SubEmpty", <<Call("EDGE_NONWORD_RE", <<>>), Call("SplitWs", <<text>>)[Len(Call("SplitWs", <<text>>)) - k + i]>>)]>>)

\* C30: a location extract_tail_location returns is the last k words of the
\* prefix, for a k from 1 to 4: no word between the first and the last word
\* returned is left out.
C30_TailContiguous ==
  (call = "tail" /\ tail # None)
    => \E k \in 1..TAIL_MAX :
          k <= Len(Call("SplitWs", <<event_name>>)) /\ tail = LastCleanWords(event_name, k)

\* extract_tail_location has returned "Rio Janeiro" for "Cup Rio de Janeiro"
C30_Witness ==
  /\ call = "tail"
  /\ event_name = <<"C","u","p"," ","R","i","o"," ","d","e"," ","J","a","n","e","i","r","o">>
  /\ LastCleanWords(event_name, 3) = <<"R","i","o"," ","d","e"," ","J","a","n","e","i","r","o">>
  /\ tail = <<"R","i","o"," ","J","a","n","e","i","r","o">>

\* ---------------------------------------------------------------------------
\* the record of event id gave the city a country of its own
GivesCountry(id, city) ==
  /\ id \notin DOMAIN event_cities
  /\ Events[id].city = city
  /\ Truthy(Events[id].country)

\* the positions of list whose records gave the city a country
Givers(list, city) == { k \in 1..Len(list) : GivesCountry(list[k].ifsc_id, city) }

\* event_city_country.get(city) after a pass over list: the country of the
\* last record that gave one
CountryGiven(list, city) == Events[list[MaxOf(Givers(list, city))].ifsc_id].country

\* the fetched records in every order
Reorderings(list) ==
  { [k \in 1..Len(list) |-> list[p[k]]] : p \in Orderings(Len(list)) }

\* C28: once the pass is over, an event with a city and no country of its own
\* has the country that a pass over the same records in any other order would
\* have given it.
C28_OrderIndependent ==
  filled =>
    \A id \in DOMAIN event_cities :
      \A q \in Reorderings(data_list) :
        Givers(q, event_cities[id]) # {} =>
          Events[id].country = CountryGiven(q, event_cities[id])

\* Event 1 has the city Paris and no country; event 2 gives Paris FRA and
\* event 3, processed last, gives it AUT: event 1 is stored with AUT, and with
\* FRA had the records come in the order 1, 3, 2.
C28_Witness ==
  /\ filled
  /\ [k \in 1..Len(data_list) |-> data_list[k].ifsc_id] = <<1, 2, 3>>
  /\ 1 \in DOMAIN event_cities
  /\ event_cities[1] = <<"P","a","r","i","s">>
  /\ Events[2].country = <<"F","R","A">>
  /\ Events[3].country = <<"A","U","T">>
  /\ Events[3].city = <<"P","a","r","i","s">>
  /\ Events[2].city = <<"P","a","r","i","s">>
  /\ Events[1].country = <<"A","U","T">>
  /\ CountryGiven(<<data_list[1], data_list[3], data_list[2]>>, <<"P","a","r","i","s">>) = <<"F","R","A">>

\* ---------------------------------------------------------------------------
\* how many items of a list satisfy Test
CountOf(l, Test(_)) == Cardinality({ k \in DOMAIN l : Test(l[k]) })

\* the records of the returned results tagged with id
RecordsOf(id) == CountOf(info, LAMBDA d : d.ifsc_id = id)

\* how often id is in the returned failed list
FailuresOf(id) == CountOf(failed_ids, LAMBDA x : x = id)

\* C26: when scrape_parallel has returned, every submitted id has one record
\* in the results or is once in the failed list, never both and never neither;
\* every task has finished and nothing is left on a queue.
C26_FetchAccounting ==
  fpc = "returned" =>
    /\ \A id \in Items(data_ids) : RecordsOf(id) + FailuresOf(id) = 1
    /\ \A k \in DOMAIN info : info[k].ifsc_id \in Items(data_ids)
    /\ Items(failed_ids) \subseteq Items(data_ids)
    /\ round_over(worker)
    /\ data_queue = <<>>
    /\ failed_queue = <<>>

\* Two ids: 1 fails, then succeeds in the first retry round; 2 fails three
\* times and is the returned failed list.
C26_Witness ==
  /\ fpc = "returned"
  /\ data_ids = <<1, 2>>
  /\ requests[1] = <<"error", "ok">>
  /\ requests[2] = <<"status", "error", "status">>
  /\ info = << [ifsc_id |-> 1] >>
  /\ failed_ids = <<2>>

\* C27: an id is requested 1 + max_retries times at most, and every request of
\* an id but the last one failed: it is requested again only after a failure
\* and never after a success.
C27_BoundedRetries ==
  \A id \in DOMAIN requests :
    /\ Len(requests[id]) <= 1 + max_retries
    /\ \A k \in 1..(Len(requests[id]) - 1) : requests[id][k] # "ok"

\* Id 1 succeeds at once and is left alone while id 2 is requested three
\* times, the third time with success.
C27_Witness ==
  /\ fpc = "returned"
  /\ data_ids = <<1, 2>>
  /\ requests[1] = <<"ok">>
  /\ requests[2] = <<"error", "status", "ok">>
  /\ failed_ids = <<>>

\* ---------------------------------------------------------------------------
\* what a loop has left to go through: the words and the flag of the
\* edge-word loop, the characters of the edge-noise loop, the separators or
\* the words still to come of the walks and of the scan
Measure(l) ==
  CASE l.fn = "clean_city" -> 2 * Len(l.words) + (IF l.changed THEN 1 ELSE 0)
    [] l.fn = "cleanup_city" -> Len(l.c)
    [] l.fn \in { "left_walk", "year_walk" } -> l.i + 1
    [] l.fn = "tail_scan" -> l.i

\* what the function computes from the loop's outcome, as the parsers use it
LoopOutcomeAgrees ==
  loop.at = "returned" =>
    CASE loop.fn = "clean_city" -> loop.words = Call("StripEdgeNoise", <<EdgeWordsOf(event_name)>>)
      [] loop.fn = "cleanup_city" -> loop.c = Call("StripEdges", <<EdgeTextOf(event_name), None>>)
      [] loop.fn = "tail_scan" ->
           loop.tail = Call("TailWalk", <<Call("SplitWs", <<event_name>>), Len(Call("SplitWs", <<event_name>>)), <<>>>>)
      [] OTHER -> loop.i >= -1

\* C25: every loop of the parsers is left: a turn that does not leave the
\* loop makes what the loop has left to go through strictly smaller, which is
\* never negative, and a loop that runs reaches its end.
C25_LoopsTerminate ==
  /\ [][loop.fn # "none" /\ loop'.at = "run" => Measure(loop') < Measure(loop)]_vars
  /\ [](loop.fn # "none" => Measure(loop) >= 0 /\ LoopOutcomeAgrees)
  /\ \A f \in LoopNames : Running(f) ~> (loop.fn = f /\ loop.at = "returned")

\* The edge-word loop has dropped four words of 'IFSC Youth Paris Junior
\* Senior', a turn each, and has been left with 'Paris'.
C25_Witness ==
  /\ loop.fn = "clean_city"
  /\ loop.at = "returned"
  /\ Len(EdgeWordsOf(event_name)) = 5
  /\ loop.words = << <<"P","a","r","i","s">> >>
  /\ ~loop.changed
====
